---- MODULE Spec2Model ----
(***************************************************************************)
(* Orchestration core of KING: the Task lifecycle state machine            *)
(* (core/domain/task.py), the domain EventBus (core/domain/event_bus.py)   *)
(* and task scheduling (core/services/task_scheduler.py,                   *)
(* core/services/agent_orchestrator.py) over the in-memory repositories.   *)
(***************************************************************************)
EXTENDS Integers, Sequences, FiniteSets, TLC

(***************************************************************************)
(* Part 1.  Task entity (core/domain/task.py)                              *)
(***************************************************************************)

\* TaskStatus enum
CREATED == "created"
ASSIGNED == "assigned"
IN_PROGRESS == "in_progress"
COMPLETED == "completed"
FAILED == "failed"
CANCELLED == "cancelled"

TaskStatus == {CREATED, ASSIGNED, IN_PROGRESS, COMPLETED, FAILED, CANCELLED}

\* Python None for the Optional[str] / Optional[dict] fields
None == "None"

\* Python None for the Optional[datetime] fields (timestamps are positive)
NoTime == 0

\* bound on the wall clock (datetime.utcnow) of the Task specification
MaxClock == 6

\* bounds on the agents and tasks created (their ids are fresh uuid4 strings)
MaxAgents == 2
MaxTasks == 1
AgentName == <<"a1", "a2", "a3">>
TaskName == <<"t1", "t2", "t3">>
AgentIds == {AgentName[i] : i \in 1..MaxAgents}
TaskIds == {TaskName[i] : i \in 1..MaxTasks}

\* arguments the callers pass
Results == {"r1", "r2"}
Errors == {"err1"}

VARIABLES
    task,        \* the fields of one Task object
    clock,       \* datetime.utcnow()
    lastCall     \* the last transition call: its name, whether it raised, the task before it

taskVars == <<task, clock, lastCall>>

\* EventBus fields (core/domain/event_bus.py, __init__) and the coroutines using them
VARIABLES
    handlers,         \* self._handlers: defaultdict(list), event type -> handlers
    async_handlers,   \* self._async_handlers: defaultdict(list)
    event_queue,      \* self._event_queue: the items of the asyncio.Queue
    unfinished_tasks, \* the queue's count of items put and not yet task_done()
    processing,       \* self._processing
    processing_task,  \* self._processing_task: a loop task or NoTask
    loops,            \* every task created from _process_event_queue(): its position
    pubs,             \* every caller of publish(): its position
    stopCall,         \* the caller of stop(): its position
    calls,            \* how many publish/subscribe/unsubscribe/stop calls were made
    evs,              \* history: per published event, what happened to it
    icount,           \* history: immediate invocations per event and handler
    dcount            \* history: deferred invocations per event and handler

busVars == <<handlers, async_handlers, event_queue, unfinished_tasks, processing,
             processing_task, loops, pubs, stopCall, calls, evs, icount, dcount>>

\* the in-memory repositories and the callers of TaskScheduler / AgentOrchestrator
VARIABLES
    agents,       \* InMemoryAgentRepository._agents: the Agent objects by id
    agent_order,  \* the iteration order of the _agents dict (insertion order)
    tasks,        \* InMemoryTaskRepository._tasks: the Task objects by id
    task_order,   \* the iteration order of the _tasks dict
    callers,      \* every caller of create_task / schedule_task: its position
    published,    \* the events passed to event_bus.publish: how many of each
    lastReturn,   \* history: the last return of create_task / schedule_task
    svc           \* how many service calls were made

schedVars == <<agents, agent_order, tasks, task_order, callers, published, lastReturn, svc>>

\* the event bus the services were constructed with
VARIABLE
    event_bus     \* whether its publish() returns or raises an Exception

\* Task() as the dataclass constructs it at time now
NewTask(now) ==
    [status |-> CREATED, assigned_agent |-> None, result |-> None, error |-> None,
     started_at |-> NoTime, completed_at |-> NoTime, updated_at |-> now]

\* the outcome of a method call: the object after it and whether ValueError was raised
Raise(t) == [task |-> t, raised |-> TRUE]
Return(t) == [task |-> t, raised |-> FALSE]

assign_to_Unguarded(t, agent_id, now) ==
    Return([t EXCEPT !.assigned_agent = agent_id, !.status = ASSIGNED, !.updated_at = now])

assign_to(t, agent_id, now) ==
    IF t.status # CREATED
    THEN Raise(t)
    ELSE Return([t EXCEPT !.assigned_agent = agent_id, !.status = ASSIGNED, !.updated_at = now])

start_OnlyAssigned(t, now) ==
    IF t.status # ASSIGNED
    THEN Raise(t)
    ELSE Return([t EXCEPT !.status = IN_PROGRESS, !.started_at = now, !.updated_at = now])

start(t, now) ==
    IF t.status \notin {ASSIGNED, CREATED}
    THEN Raise(t)
    ELSE Return([t EXCEPT !.status = IN_PROGRESS, !.started_at = now, !.updated_at = now])

complete(t, result, now) ==
    IF t.status # IN_PROGRESS
    THEN Raise(t)
    ELSE Return([t EXCEPT !.status = COMPLETED, !.result = result,
                          !.completed_at = now, !.updated_at = now])

fail(t, error, now) ==
    Return([t EXCEPT !.status = FAILED, !.error = error,
                     !.completed_at = now, !.updated_at = now])

cancel_StampsFirst(t, now) ==
    IF t.status \in {COMPLETED, FAILED, CANCELLED}
    THEN Raise([t EXCEPT !.updated_at = now])
    ELSE Return([t EXCEPT !.status = CANCELLED, !.completed_at = now, !.updated_at = now])

cancel(t, now) ==
    IF t.status \in {COMPLETED, FAILED, CANCELLED}
    THEN Raise(t)
    ELSE Return([t EXCEPT !.status = CANCELLED, !.completed_at = now, !.updated_at = now])

is_completed(t) == t.status \in {COMPLETED, FAILED, CANCELLED}

TaskInit ==
    /\ task = NewTask(1)
    /\ clock = 2
    /\ lastCall = [op |-> "none", raised |-> FALSE, pre |-> NewTask(1)]

\* one call of a Task method by the executor that owns the task
Called(op, r) ==
    /\ clock < MaxClock
    /\ task' = r.task
    /\ clock' = clock + 1
    /\ lastCall' = [op |-> op, raised |-> r.raised, pre |-> task]

CallAssignTo == \E a \in AgentIds : Called("assign_to", assign_to(task, a, clock))
CallStart == Called("start", start(task, clock))
CallComplete == \E r \in Results : Called("complete", complete(task, r, clock))
CallFail == \E e \in Errors : Called("fail", fail(task, e, clock))
CallCancel == Called("cancel", cancel(task, clock))

(***************************************************************************)
(* Part 2.  EventBus (core/domain/event_bus.py)                            *)
(*                                                                         *)
(* Coroutines run under asyncio: a step of the model is the code a task    *)
(* runs between two suspensions.  publish() and the consumption loop       *)
(* suspend inside an awaited handler; Queue.get() suspends only on an      *)
(* empty queue, Queue.put() on the unbounded queue never; subscribe() and  *)
(* unsubscribe() contain no await and run in one step.  Handlers are the   *)
(* callers' coroutine functions: one may suspend, then return or raise.    *)
(***************************************************************************)

\* event type tags (DomainEvent.event_type is the event's class name)
EventTypes == {"TaskCreated", "TaskAssigned"}

\* the callables the subscribers register
Handlers == {"h1", "h2"}

\* the handlers that end by raising an Exception (the others return)
Raising == {"h2"}

\* bound on the publish, subscribe, unsubscribe and stop calls made on the bus
MaxBusCalls == 4

\* the events published and the loop tasks created, numbered in order
EventIds == 1..MaxBusCalls
LoopIds == 1..MaxBusCalls

\* the coroutine calling publish()
Publishers == {"publisher1"}

\* history: the calls made on the bus so far
NumBusCalls == calls.publish + calls.subscribe + calls.unsubscribe + calls.stop

NoTask == 0
NoEvent == [id |-> 0, type |-> "none"]

\* dict lookups: d.get(k, []) and, for a defaultdict(list), d[k] = v
Get(d, k) == IF k \in DOMAIN d THEN d[k] ELSE <<>>
Put(d, k, v) == [x \in DOMAIN d \cup {k} |-> IF x = k THEN v ELSE d[x]]

\* list helpers: h in s, s.count(h), s.remove(h)
Contains(s, h) == \E i \in 1..Len(s) : s[i] = h
Count(s, h) == Cardinality({i \in 1..Len(s) : s[i] = h})
IndexOf(s, h) == CHOOSE i \in 1..Len(s) : s[i] = h /\ \A j \in 1..(i - 1) : s[j] # h
Remove(s, h) ==
    IF Contains(s, h)
    THEN [i \in 1..(Len(s) - 1) |-> IF i < IndexOf(s, h) THEN s[i] ELSE s[i + 1]]
    ELSE s

IdleLoop == [pc |-> "none", ev |-> NoEvent, idx |-> 0, h |-> "none"]
IdlePub == [pc |-> "idle", ev |-> NoEvent, idx |-> 0, h |-> "none"]
NoInfo ==
    [type |-> "none", state |-> "unused", seq |-> 0, isnap |-> <<>>, snap |-> <<>>,
     idist |-> FALSE, ddist |-> FALSE]

\* EventBus.__init__
BusInit ==
    /\ handlers = [t \in {} |-> <<>>]
    /\ async_handlers = [t \in {} |-> <<>>]
    /\ event_queue = <<>>
    /\ unfinished_tasks = 0
    /\ processing = FALSE
    /\ processing_task = NoTask
    /\ loops = [l \in LoopIds |-> IdleLoop]
    /\ pubs = [p \in Publishers |-> IdlePub]
    /\ stopCall = [pc |-> "idle", awaited |-> NoTask, pending |-> {}]
    /\ calls = [publish |-> 0, subscribe |-> 0, unsubscribe |-> 0, stop |-> 0, stopped |-> 0]
    /\ evs = [e \in EventIds |-> NoInfo]
    /\ icount = [e \in EventIds |-> [h \in Handlers |-> 0]]
    /\ dcount = [e \in EventIds |-> [h \in Handlers |-> 0]]

\* history: the events put on the queue so far
NumEnqueued == Cardinality({e \in EventIds : evs[e].seq > 0})

\* history: the registry of a type changed while some of its events were being delivered
DisturbImmediate(info, ty) ==
    [e \in EventIds |->
        IF info[e].type = ty /\ info[e].state = "dispatching"
        THEN [info[e] EXCEPT !.idist = TRUE] ELSE info[e]]
DisturbDeferred(info, ty) ==
    [e \in EventIds |->
        IF info[e].type = ty /\ info[e].state \in {"queued", "inflight"}
        THEN [info[e] EXCEPT !.ddist = TRUE] ELSE info[e]]
DisturbStop(info) ==
    [e \in EventIds |->
        IF info[e].state \in {"queued", "inflight"}
        THEN [info[e] EXCEPT !.ddist = TRUE] ELSE info[e]]

\* what publish() does with a handler's exception: "except Exception" logs it
publish_except_Propagates(raised) == IF raised THEN "propagate" ELSE "continue"

publish_except(raised) == "continue"

\* what the loop does with a handler's exception: "except Exception" logs it
loop_except(raised) == "continue"

\* the test that guards the put in publish()
publish_enqueues_Twice(ty) == IF ty \in DOMAIN async_handlers THEN 2 ELSE 0

publish_enqueues(ty) == IF ty \in DOMAIN async_handlers THEN 1 ELSE 0

\* the end of publish(): the put on the deferred queue, then the return
PublishEnqueue(p, ev, info) ==
    LET n == publish_enqueues(ev.type) IN
    /\ pubs' = [pubs EXCEPT ![p] = IdlePub]
    /\ IF n > 0
       THEN /\ event_queue' = event_queue \o [i \in 1..n |-> ev]
            /\ unfinished_tasks' = unfinished_tasks + n
            /\ evs' = [info EXCEPT ![ev.id].state = "queued",
                                   ![ev.id].snap = Get(async_handlers, ev.type),
                                   ![ev.id].seq = NumEnqueued + 1]
       ELSE /\ UNCHANGED <<event_queue, unfinished_tasks>>
            /\ evs' = [info EXCEPT ![ev.id].state = "skipped"]

\* publish(event) up to its first suspension
PublishStart(p, ty) ==
    /\ pubs[p].pc = "idle"
    /\ NumBusCalls < MaxBusCalls
    /\ LET e == calls.publish + 1
           ev == [id |-> e, type |-> ty]
           imm == Get(handlers, ty)
           info == [evs EXCEPT ![e].type = ty, ![e].isnap = imm, ![e].state = "dispatching"]
       IN  /\ calls' = [calls EXCEPT !.publish = e]
           /\ IF ty \in DOMAIN handlers /\ Len(imm) >= 1
              THEN /\ pubs' = [pubs EXCEPT ![p] = [pc |-> "handler", ev |-> ev, idx |-> 1,
                                                   h |-> imm[1]]]
                   /\ icount' = [icount EXCEPT ![e][imm[1]] = @ + 1]
                   /\ evs' = info
                   /\ UNCHANGED <<event_queue, unfinished_tasks>>
              ELSE /\ PublishEnqueue(p, ev, info)
                   /\ UNCHANGED icount
    /\ UNCHANGED <<handlers, async_handlers, processing, processing_task, loops,
                   stopCall, dcount>>

\* "for handler in self._handlers[event_type]": the list iterator goes on while its
\* index is within the list as it is now
has_next_Never(nxt, lst) == FALSE

has_next(nxt, lst) == nxt <= Len(lst)

\* publish(event) resumed by the awaited handler's return or exception
PublishHandlerDone(p) ==
    /\ pubs[p].pc = "handler"
    /\ LET ev == pubs[p].ev
           imm == Get(handlers, ev.type)
           nxt == pubs[p].idx + 1
       IN  IF publish_except(pubs[p].h \in Raising) = "propagate"
           THEN /\ pubs' = [pubs EXCEPT ![p] = IdlePub]
                /\ evs' = [evs EXCEPT ![ev.id].state = "raised"]
                /\ UNCHANGED <<icount, event_queue, unfinished_tasks>>
           ELSE IF has_next(nxt, imm)
           THEN /\ pubs' = [pubs EXCEPT ![p].idx = nxt, ![p].h = imm[nxt]]
                /\ icount' = [icount EXCEPT ![ev.id][imm[nxt]] = @ + 1]
                /\ UNCHANGED <<evs, event_queue, unfinished_tasks>>
           ELSE /\ PublishEnqueue(p, ev, evs)
                /\ UNCHANGED icount
    /\ UNCHANGED <<handlers, async_handlers, processing, processing_task, loops,
                   stopCall, calls, dcount>>

\* the guard of create_task in subscribe()
subscribe_starts_loop(deferred) == deferred /\ ~processing

\* subscribe(event_type, handler, async_processing)
Subscribe(ty, h, deferred) ==
    /\ NumBusCalls < MaxBusCalls
    /\ calls' = [calls EXCEPT !.subscribe = @ + 1]
    /\ IF deferred
       THEN /\ async_handlers' = Put(async_handlers, ty, Append(Get(async_handlers, ty), h))
            /\ evs' = DisturbDeferred(evs, ty)
            /\ UNCHANGED handlers
       ELSE /\ handlers' = Put(handlers, ty, Append(Get(handlers, ty), h))
            /\ evs' = DisturbImmediate(evs, ty)
            /\ UNCHANGED async_handlers
    /\ IF subscribe_starts_loop(deferred)
       THEN LET l == Cardinality({x \in LoopIds : loops[x].pc # "none"}) + 1 IN
            /\ loops' = [loops EXCEPT ![l].pc = "new"]
            /\ processing_task' = l
       ELSE UNCHANGED <<loops, processing_task>>
    /\ UNCHANGED <<event_queue, unfinished_tasks, processing, pubs, stopCall, icount, dcount>>

\* unsubscribe(event_type, handler): both lookups go through the defaultdict
Unsubscribe(ty, h) ==
    /\ NumBusCalls < MaxBusCalls
    /\ calls' = [calls EXCEPT !.unsubscribe = @ + 1]
    /\ handlers' = Put(handlers, ty, Remove(Get(handlers, ty), h))
    /\ async_handlers' = Put(async_handlers, ty, Remove(Get(async_handlers, ty), h))
    /\ evs' = LET a == IF Contains(Get(handlers, ty), h)
                       THEN DisturbImmediate(evs, ty) ELSE evs
              IN  IF Contains(Get(async_handlers, ty), h) THEN DisturbDeferred(a, ty) ELSE a
    /\ UNCHANGED <<event_queue, unfinished_tasks, processing, processing_task, loops,
                   pubs, stopCall, icount, dcount>>

\* the loop from "await self._event_queue.get()" to its next suspension: events whose
\* handler list is empty are taken and marked task_done() without suspending
RECURSIVE Drain(_, _, _)
Drain(q, unf, info) ==
    IF q = <<>>
    THEN [queue |-> q, unfinished |-> unf, evs |-> info, ev |-> NoEvent]
    ELSE LET ev == Head(q) IN
         IF ev.type \in DOMAIN async_handlers /\ Len(async_handlers[ev.type]) >= 1
         THEN [queue |-> Tail(q), unfinished |-> unf,
               evs |-> [info EXCEPT ![ev.id].state = "inflight"], ev |-> ev]
         ELSE Drain(Tail(q), unf - 1, [info EXCEPT ![ev.id].state = "done"])

\* the loop takes the next event and invokes its first handler, or waits in get()
LoopFetch(l, q, unf, info) ==
    LET d == Drain(q, unf, info) IN
    /\ event_queue' = d.queue
    /\ unfinished_tasks' = d.unfinished
    /\ evs' = d.evs
    /\ IF d.ev = NoEvent
       THEN /\ loops' = [loops EXCEPT ![l] = [IdleLoop EXCEPT !.pc = "get"]]
            /\ UNCHANGED dcount
       ELSE LET h == async_handlers[d.ev.type][1] IN
            /\ loops' = [loops EXCEPT ![l] = [pc |-> "handler", ev |-> d.ev, idx |-> 1,
                                               h |-> h]]
            /\ dcount' = [dcount EXCEPT ![d.ev.id][h] = @ + 1]

\* _process_event_queue() runs for the first time
LoopStart(l) ==
    /\ loops[l].pc = "new"
    /\ processing' = TRUE
    /\ LoopFetch(l, event_queue, unfinished_tasks, evs)
    /\ UNCHANGED <<handlers, async_handlers, processing_task, pubs, stopCall, calls, icount>>

\* a put() has woken the loop waiting in get()
LoopWake(l) ==
    /\ loops[l].pc = "get"
    /\ event_queue # <<>>
    /\ LoopFetch(l, event_queue, unfinished_tasks, evs)
    /\ UNCHANGED <<handlers, async_handlers, processing, processing_task, pubs, stopCall,
                   calls, icount>>

\* the loop resumed by the awaited handler's return or exception
LoopHandlerDone(l) ==
    /\ loops[l].pc = "handler"
    /\ LET ev == loops[l].ev
           lst == Get(async_handlers, ev.type)
           nxt == loops[l].idx + 1
       IN  IF loop_except(loops[l].h \in Raising) = "propagate"
           THEN \* the outer "except Exception": logged, task_done() is skipped
                LoopFetch(l, event_queue, unfinished_tasks,
                          [evs EXCEPT ![ev.id].state = "aborted"])
           ELSE IF nxt <= Len(lst)
           THEN /\ loops' = [loops EXCEPT ![l].idx = nxt, ![l].h = lst[nxt]]
                /\ dcount' = [dcount EXCEPT ![ev.id][lst[nxt]] = @ + 1]
                /\ UNCHANGED <<evs, event_queue, unfinished_tasks>>
           ELSE LoopFetch(l, event_queue, unfinished_tasks - 1,
                          [evs EXCEPT ![ev.id].state = "done"])
    /\ UNCHANGED <<handlers, async_handlers, processing, processing_task, pubs, stopCall,
                   calls, icount>>

\* history: the events put on the queue and not yet marked task_done()
Pending == {e \in EventIds : evs[e].state \in {"queued", "inflight"}}

\* Task.cancel() on a loop task: CancelledError is thrown at the task's suspension point
\* (before its first statement if it never ran); it is not an Exception, so it leaves the
\* handler loop without task_done() and ends the task at "except asyncio.CancelledError"
Cancel(l) == [IdleLoop EXCEPT !.pc = "done"]

\* stop() up to its first suspension
StopCall ==
    /\ stopCall.pc = "idle"
    /\ NumBusCalls < MaxBusCalls
    /\ IF ~processing
       THEN /\ stopCall' = [pc |-> "idle", awaited |-> NoTask, pending |-> Pending]
            /\ calls' = [calls EXCEPT !.stop = @ + 1, !.stopped = @ + 1]
            /\ UNCHANGED <<processing, loops, evs>>
       ELSE /\ processing' = FALSE
            /\ IF processing_task # NoTask /\ loops[processing_task].pc # "done"
               THEN /\ loops' = [loops EXCEPT ![processing_task] = Cancel(processing_task)]
                    /\ evs' = LET info == DisturbStop(evs)
                                  cur == loops[processing_task]
                              IN  IF cur.pc = "handler"
                                  THEN [info EXCEPT ![cur.ev.id].state = "aborted"]
                                  ELSE info
                    /\ stopCall' = [pc |-> "await_task", awaited |-> processing_task,
                                    pending |-> Pending]
                    /\ calls' = [calls EXCEPT !.stop = @ + 1]
               ELSE /\ UNCHANGED loops
                    /\ evs' = DisturbStop(evs)
                    /\ IF event_queue # <<>>
                       THEN /\ stopCall' = [pc |-> "join", awaited |-> NoTask,
                                            pending |-> Pending]
                            /\ calls' = [calls EXCEPT !.stop = @ + 1]
                       ELSE /\ stopCall' = [pc |-> "idle", awaited |-> NoTask,
                                            pending |-> Pending]
                            /\ calls' = [calls EXCEPT !.stop = @ + 1, !.stopped = @ + 1]
    /\ UNCHANGED <<handlers, async_handlers, event_queue, unfinished_tasks,
                   processing_task, pubs, icount, dcount>>

\* stop() resumed by the end of the cancelled loop task, from "if not queue.empty()" on
StopTaskDone ==
    /\ stopCall.pc = "await_task"
    /\ loops[stopCall.awaited].pc = "done"
    /\ IF event_queue # <<>>
       THEN /\ stopCall' = [stopCall EXCEPT !.pc = "join", !.awaited = NoTask]
            /\ UNCHANGED calls
       ELSE /\ stopCall' = [stopCall EXCEPT !.pc = "idle", !.awaited = NoTask]
            /\ calls' = [calls EXCEPT !.stopped = @ + 1]
    /\ UNCHANGED <<handlers, async_handlers, event_queue, unfinished_tasks, processing,
                   processing_task, loops, pubs, evs, icount, dcount>>

\* stop() resumed by Queue.join(): every item put has been marked task_done()
StopJoinDone ==
    /\ stopCall.pc = "join"
    /\ unfinished_tasks = 0
    /\ stopCall' = [stopCall EXCEPT !.pc = "idle"]
    /\ calls' = [calls EXCEPT !.stopped = @ + 1]
    /\ UNCHANGED <<handlers, async_handlers, event_queue, unfinished_tasks, processing,
                   processing_task, loops, pubs, evs, icount, dcount>>

(***************************************************************************)
(* Part 3.  Scheduling (core/services/task_scheduler.py,                   *)
(* core/services/agent_orchestrator.py, core/domain/agent.py) over         *)
(* infrastructure/persistence/in_memory_repositories.py.                   *)
(*                                                                         *)
(* The repositories hand out the stored objects themselves, so a Task or   *)
(* Agent is one shared object named by its id.  A service coroutine may be *)
(* suspended at each of its awaits: a step is one awaited call together    *)
(* with the synchronous code after it, up to the next await.               *)
(***************************************************************************)

\* AgentStatus enum
AGENT_CREATED == "created"
ACTIVE == "active"
IDLE == "idle"
BUSY == "busy"
ERROR == "error"
STOPPED == "stopped"

AgentStatus == {AGENT_CREATED, ACTIVE, IDLE, BUSY, ERROR, STOPPED}

\* capability names: the keys of Agent.capabilities, the items of
\* metadata["required_capabilities"] (an absent or empty list is the empty set)
Capabilities == {"c1", "c2"}

\* arguments the callers pass: capability sets and target statuses
AgentCapSets == {{"c1"}, {"c1", "c2"}}
RequiredSets == {{}, {"c1", "c2"}}
StatusInputs == {ACTIVE, IDLE, BUSY}

\* bound on the update_agent_status, schedule_task and executor calls made
MaxServiceCalls == 3

\* bound on the schedule_all_pending calls made
MaxSweeps == 2

\* bound on the calls the clients make to the scheduler and the orchestrator
MaxClientCalls == 5

\* the deferred subscriber of TaskAssigned when the scheduler is wired to the bus
Subscriber == "h1"

\* the coroutine calling the scheduler
Callers == {"caller1"}

\* two coroutines of one event loop that call the scheduler without awaiting each other
Racers == {"caller1", "caller2"}

\* history: the bounded service calls made so far
NumServiceCalls ==
    svc.update_agent_status + svc.schedule_task + svc.executor + svc.assign_task_to_agent

NoAgent == [status |-> "none", capabilities |-> {}, updated_at |-> 0]

\* a stored Task: the entity's fields and metadata["required_capabilities"]
StoredTask(now, required, payload) ==
    NewTask(now) @@ [required_capabilities |-> required, payload |-> payload]
NoTaskObj == [StoredTask(NoTime, {}, {}) EXCEPT !.status = "none"]

\* the payload argument of create_task: a dict, here its set of keys
EmptyPayload == {}
SomePayload == {"x"}
Payloads == {EmptyPayload, SomePayload}

\* a caller between calls; during a call: the coroutine's locals (for
\* schedule_all_pending also the rest of pending_tasks and scheduled_count) and, as
\* history, the task_repository.update calls, agent queries and TaskAssigned events
\* it has made, the pending_tasks list it started with and the number of status
\* updates made before it started
IdleCaller ==
    [pc |-> "idle", op |-> "none", task_id |-> None, agent_id |-> None,
     writes |-> 0, queries |-> 0, events |-> 0,
     pending |-> <<>>, scheduled_count |-> 0, pending_tasks |-> <<>>, created0 |-> {}]
NoReturn ==
    [op |-> "none", kind |-> "none", task_id |-> None, agent_id |-> None, ret |-> None,
     writes |-> 0, queries |-> 0, events |-> 0, scheduled_count |-> 0]

SchedInit ==
    /\ agents = [a \in AgentIds |-> NoAgent]
    /\ agent_order = <<>>
    /\ tasks = [t \in TaskIds |-> NoTaskObj]
    /\ task_order = <<>>
    /\ callers = [c \in Callers |-> IdleCaller]
    /\ published = [e \in {} |-> 0]
    /\ lastReturn = NoReturn
    /\ svc = [update_agent_status |-> 0, schedule_task |-> 0, executor |-> 0,
              schedule_all_pending |-> 0, sweep_events |-> 0, assign_task_to_agent |-> 0,
              escaped |-> 0]

\* two coroutines are ready to call the services
RaceInit ==
    /\ agents = [a \in AgentIds |-> NoAgent]
    /\ agent_order = <<>>
    /\ tasks = [t \in TaskIds |-> NoTaskObj]
    /\ task_order = <<>>
    /\ callers = [c \in Racers |-> IdleCaller]
    /\ published = [e \in {} |-> 0]
    /\ lastReturn = NoReturn
    /\ svc = [update_agent_status |-> 0, schedule_task |-> 0, executor |-> 0,
              schedule_all_pending |-> 0, sweep_events |-> 0, assign_task_to_agent |-> 0,
              escaped |-> 0]

\* the TaskAssigned events passed to publish for task t
AssignedEvents(t) ==
    {e \in DOMAIN published : e.type = "TaskAssigned" /\ e.task_id = t}

\* how many times the events of the set E were passed to publish
RECURSIVE NumPublishedFor(_)
NumPublishedFor(E) ==
    IF E = {} THEN 0
    ELSE LET e == CHOOSE x \in E : TRUE IN published[e] + NumPublishedFor(E \ {e})

\* the two kinds of bus a service may be given
BusWorks == "works"
BusRaises == "raises"

\* what _publish_event (the same code in the three services) does with an exception
\* of event_bus.publish: "except Exception" logs a warning
on_publish_error_Propagates == "propagate"

on_publish_error == "swallow"

\* the exception of publish leaves _publish_event
PublishEscapes == event_bus = BusRaises /\ on_publish_error = "propagate"

\* history: svc.escaped counts the operations ended by an exception of publish
Escaped(s) == IF PublishEscapes THEN [s EXCEPT !.escaped = @ + 1] ELSE s

\* event_bus.publish(event) as the services see it: the event is handed to the bus
Publish(event) ==
    IF event \in DOMAIN published
    THEN [published EXCEPT ![event] = @ + 1]
    ELSE published @@ (event :> 1)

\* Agent.has_capability / Agent.is_available
has_capability(agent, capability) == capability \in agent.capabilities

is_available_OrBusy(agent) == agent.status \in {ACTIVE, IDLE, BUSY}

is_available(agent) == agent.status \in {ACTIVE, IDLE}

\* InMemoryAgentRepository.get_available: the ids in dict order
get_available_Unloaded ==
    SelectSeq(agent_order, LAMBDA a : /\ agents[a].status \in {ACTIVE, IDLE}
                                      /\ \A t \in TaskIds : tasks[t].assigned_agent # a)

get_available == SelectSeq(agent_order, LAMBDA a : agents[a].status \in {ACTIVE, IDLE})

\* the capability test of find_available_agent: all(agent.has_capability(cap) for cap ...)
matches_Any(agent, required) == \E cap \in required : has_capability(agent, cap)

matches(agent, required) == \A cap \in required : has_capability(agent, cap)

\* AgentOrchestrator.find_available_agent: an agent id or None
find_available_agent(required) ==
    LET available_agents == get_available
        fit == SelectSeq(available_agents, LAMBDA a : matches(agents[a], required))
    IN  IF available_agents = <<>> THEN None
        ELSE IF required # {} THEN (IF fit = <<>> THEN None ELSE Head(fit))
        ELSE Head(available_agents)

\* AgentOrchestrator.create_agent: the Agent starts in CREATED
CreateAgent(caps) ==
    /\ Len(agent_order) < MaxAgents
    /\ LET a == AgentName[Len(agent_order) + 1] IN
       /\ agents' = [agents EXCEPT ![a] = [status |-> AGENT_CREATED, capabilities |-> caps,
                                              updated_at |-> 0]]
       /\ agent_order' = Append(agent_order, a)
       /\ published' = Publish([type |-> "AgentCreated", task_id |-> None, agent_id |-> a])
    /\ svc' = Escaped(svc)
    /\ UNCHANGED <<tasks, task_order, callers, lastReturn>>

\* Agent.change_status at time now: nothing when the status is the same
change_status(agent, new_status, now) ==
    IF agent.status = new_status THEN agent
    ELSE [agent EXCEPT !.status = new_status, !.updated_at = now]

\* AgentOrchestrator.update_agent_status on a stored agent: change_status, "await
\* agent_repository.update" and the publish of AgentStatusChanged, whatever the old
\* status; datetime.utcnow() reads later than the time the agent carries
UpdateAgentStatus(a, new_status) ==
    /\ NumServiceCalls < MaxServiceCalls
    /\ agents[a].status # "none"
    /\ svc' = Escaped([svc EXCEPT !.update_agent_status = @ + 1])
    /\ agents' = [agents EXCEPT ![a] = change_status(agents[a], new_status,
                                                    agents[a].updated_at + 1)]
    /\ published' = Publish([type |-> "AgentStatusChanged", task_id |-> None,
                             agent_id |-> a])
    /\ UNCHANGED <<agent_order, tasks, task_order, callers, lastReturn>>

\* the executor that owns a stored task calls one of its transitions
ExecutorCall(t, op) ==
    /\ NumServiceCalls < MaxServiceCalls
    /\ tasks[t].status # "none"
    /\ svc' = [svc EXCEPT !.executor = @ + 1]
    /\ LET r == CASE op = "start" -> start(tasks[t], 1)
                  [] op = "complete" -> complete(tasks[t], "r1", 1)
                  [] op = "fail" -> fail(tasks[t], "err1", 1)
                  [] op = "cancel" -> cancel(tasks[t], 1)
       IN  tasks' = [tasks EXCEPT ![t] = r.task]
    /\ UNCHANGED <<agents, agent_order, task_order, callers, published, lastReturn>>

\* schedule_task returns ret (a task id or None) to the caller's coroutine: how it
\* ended and what it had done.  In schedule_all_pending the loop body goes on: "if
\* scheduled and scheduled.status == TaskStatus.ASSIGNED: scheduled_count += 1", then
\* the next task of pending_tasks, or the return of scheduled_count after the last
\* (no step that returns changes a task, so the status read is that of tasks).
Returns(c, me, kind, ret) ==
    LET count == IF me.op = "schedule_all_pending" /\ ret # None
                    /\ tasks[ret].status = ASSIGNED
                 THEN me.scheduled_count + 1 ELSE me.scheduled_count
        rest == IF me.pending = <<>> THEN <<>> ELSE Tail(me.pending)
    IN
    /\ callers' = [callers EXCEPT ![c] =
                       IF me.op = "schedule_all_pending" /\ rest # <<>>
                       THEN [me EXCEPT !.pc = "sweep", !.pending = rest,
                                       !.scheduled_count = count,
                                       !.task_id = None, !.agent_id = None]
                       ELSE IdleCaller]
    /\ lastReturn' = [op |-> me.op, kind |-> kind, task_id |-> me.task_id,
                      agent_id |-> me.agent_id,
                      ret |-> IF me.op = "create_task" THEN me.task_id ELSE ret,
                      writes |-> me.writes, queries |-> me.queries, events |-> me.events,
                      scheduled_count |-> count]

\* the guard of schedule_task: only a CREATED task goes on to the agent search
schedulable_OrAssigned(t) == t.status \in {CREATED, ASSIGNED}

schedulable(t) == t.status = CREATED

\* schedule_task: "await task_repository.get_by_id" and the two early returns
ScheduleBegin(c, me) ==
    LET t == me.task_id IN
    IF t \notin TaskIds \/ tasks[t].status = "none"
    THEN Returns(c, me, "not_found", None)
    ELSE IF ~schedulable(tasks[t])
    THEN Returns(c, me, "not_created", t)
    ELSE /\ callers' = [callers EXCEPT ![c] = [me EXCEPT !.pc = "find"]]
         /\ UNCHANGED lastReturn

\* a caller invokes schedule_task(task_id)
ScheduleTask(c, t) ==
    /\ callers[c].pc = "idle"
    /\ NumServiceCalls < MaxServiceCalls
    /\ svc' = [svc EXCEPT !.schedule_task = @ + 1]
    /\ ScheduleBegin(c, [IdleCaller EXCEPT !.op = "schedule_task", !.task_id = t])
    /\ UNCHANGED <<agents, agent_order, tasks, task_order, published>>

\* what schedule_task does when no agent was found: "if not agent: return task"
on_no_agent_Raises == "raise"

on_no_agent == "return"

\* schedule_task: "await agent_orchestrator.find_available_agent" and "if not agent"
ScheduleFind(c) ==
    /\ callers[c].pc = "find"
    /\ LET t == callers[c].task_id
           agent == find_available_agent(tasks[t].required_capabilities)
           me == [callers[c] EXCEPT !.queries = @ + 1, !.agent_id = agent]
       IN  IF agent = None
           THEN Returns(c, me, IF on_no_agent = "return" THEN "no_agent" ELSE "raised", t)
           ELSE /\ callers' = [callers EXCEPT ![c] = [me EXCEPT !.pc = "assign"]]
                /\ UNCHANGED lastReturn
    /\ UNCHANGED <<agents, agent_order, tasks, task_order, published, svc>>

\* AgentOrchestrator.assign_task_to_agent up to "await task_repository.update": "await
\* agent_repository.get_by_id", the two checks (each a ValueError) and task.assign_to,
\* which raises on a task that is not CREATED
assign_task_to_agent_Unchecked(t, a) ==
    LET r == assign_to(tasks[t], a, 1) IN
    IF agents[a].status = "none" THEN [kind |-> "agent_not_found", task |-> tasks[t]]
    ELSE IF r.raised THEN [kind |-> "assign_raised", task |-> tasks[t]]
    ELSE [kind |-> "ok", task |-> r.task]

assign_task_to_agent(t, a) ==
    LET r == assign_to(tasks[t], a, 1) IN
    IF agents[a].status = "none" THEN [kind |-> "agent_not_found", task |-> tasks[t]]
    ELSE IF ~is_available(agents[a]) THEN [kind |-> "agent_unavailable", task |-> tasks[t]]
    ELSE IF r.raised THEN [kind |-> "assign_raised", task |-> tasks[t]]
    ELSE [kind |-> "ok", task |-> r.task]

\* schedule_task: "await agent_orchestrator.assign_task_to_agent(task, agent.id)"; a
\* ValueError is caught by schedule_task, which returns the task
ScheduleAssign(c) ==
    /\ callers[c].pc = "assign"
    /\ LET t == callers[c].task_id
           r == assign_task_to_agent(t, callers[c].agent_id)
       IN  IF r.kind # "ok"
           THEN /\ Returns(c, callers[c], "assign_failed", t)
                /\ UNCHANGED tasks
           ELSE /\ callers' = [callers EXCEPT ![c].pc = "update"]
                /\ tasks' = [tasks EXCEPT ![t] = r.task]
                /\ UNCHANGED lastReturn
    /\ UNCHANGED <<agents, agent_order, task_order, published, svc>>

\* a caller invokes assign_task_to_agent(task, agent_id) with a stored task: the
\* error is raised to the caller
AssignTaskToAgent(c, t, a) ==
    /\ callers[c].pc = "idle"
    /\ NumServiceCalls < MaxServiceCalls
    /\ tasks[t].status # "none"
    /\ svc' = [svc EXCEPT !.assign_task_to_agent = @ + 1]
    /\ LET me == [IdleCaller EXCEPT !.op = "assign_task_to_agent", !.task_id = t,
                                    !.agent_id = a]
           r == assign_task_to_agent(t, a)
       IN  IF r.kind # "ok"
           THEN /\ Returns(c, me, r.kind, None)
                /\ UNCHANGED tasks
           ELSE /\ callers' = [callers EXCEPT ![c] = [me EXCEPT !.pc = "update"]]
                /\ tasks' = [tasks EXCEPT ![t] = r.task]
                /\ UNCHANGED lastReturn
    /\ UNCHANGED <<agents, agent_order, task_order, published>>

\* assign_task_to_agent: "await task_repository.update" stores the same object; the
\* task is returned, to schedule_task or to the caller
ScheduleUpdate(c) ==
    /\ callers[c].pc = "update"
    /\ IF callers[c].op = "assign_task_to_agent"
       THEN Returns(c, [callers[c] EXCEPT !.writes = @ + 1], "assigned", callers[c].task_id)
       ELSE /\ callers' = [callers EXCEPT ![c].pc = "publish", ![c].writes = @ + 1]
            /\ UNCHANGED lastReturn
    /\ UNCHANGED <<agents, agent_order, tasks, task_order, published, svc>>

\* schedule_task: "await self._publish_event(TaskAssigned)" and the return; the call
\* is inside schedule_task's try, whose "except Exception" returns the task as well
SchedulePublish(c) ==
    /\ callers[c].pc = "publish"
    /\ published' = Publish([type |-> "TaskAssigned", task_id |-> callers[c].task_id,
                             agent_id |-> callers[c].agent_id])
    /\ Returns(c, [callers[c] EXCEPT !.events = @ + 1],
               IF PublishEscapes THEN "publish_caught" ELSE "assigned", callers[c].task_id)
    /\ svc' = IF callers[c].op = "schedule_all_pending"
              THEN [svc EXCEPT !.sweep_events = @ + 1] ELSE svc
    /\ UNCHANGED <<agents, agent_order, tasks, task_order>>

\* create_task: the Task is built from the arguments as they are and "await
\* task_repository.create" stores it
CreateTask(c, required, payload) ==
    /\ callers[c].pc = "idle"
    /\ Len(task_order) < MaxTasks
    /\ LET t == TaskName[Len(task_order) + 1] IN
       /\ tasks' = [tasks EXCEPT ![t] = StoredTask(1, required, payload)]
       /\ task_order' = Append(task_order, t)
       /\ callers' = [callers EXCEPT ![c] = [IdleCaller EXCEPT !.pc = "created",
                                                               !.op = "create_task",
                                                               !.task_id = t]]
    /\ UNCHANGED <<agents, agent_order, published, lastReturn, svc>>

\* create_task: "await self._publish_event(TaskCreated)"
CreatePublish(c) ==
    /\ callers[c].pc = "created"
    /\ published' = Publish([type |-> "TaskCreated", task_id |-> callers[c].task_id,
                             agent_id |-> None])
    /\ IF PublishEscapes
       THEN /\ Returns(c, callers[c], "publish_failed", None)
            /\ svc' = Escaped(svc)
       ELSE /\ callers' = [callers EXCEPT ![c].pc = "schedule"]
            /\ UNCHANGED <<lastReturn, svc>>
    /\ UNCHANGED <<agents, agent_order, tasks, task_order>>

\* create_task: "await self.schedule_task(task.id)" (an orchestrator is configured)
CreateSchedule(c) ==
    /\ callers[c].pc = "schedule"
    /\ ScheduleBegin(c, callers[c])
    /\ UNCHANGED <<agents, agent_order, tasks, task_order, published, svc>>

\* InMemoryTaskRepository.get_pending: the CREATED and ASSIGNED tasks in dict order
get_pending_OnlyAssigned == SelectSeq(task_order, LAMBDA t : tasks[t].status = ASSIGNED)

get_pending == SelectSeq(task_order, LAMBDA t : tasks[t].status \in {CREATED, ASSIGNED})

\* schedule_all_pending: "await self.get_pending_tasks()"; with nothing pending the
\* loop is skipped and 0 is returned
SweepCall(c) ==
    /\ callers[c].pc = "idle"
    /\ svc.schedule_all_pending < MaxSweeps
    /\ svc' = [svc EXCEPT !.schedule_all_pending = @ + 1]
    /\ LET me == [IdleCaller EXCEPT !.pc = "sweep", !.op = "schedule_all_pending",
                                    !.pending = get_pending,
                                    !.pending_tasks = get_pending,
                                    !.created0 = {t \in TaskIds : tasks[t].status = CREATED}]
       IN  IF get_pending = <<>>
           THEN /\ callers' = [callers EXCEPT ![c] = IdleCaller]
                /\ lastReturn' = [NoReturn EXCEPT !.op = "schedule_all_pending",
                                                  !.kind = "swept"]
           ELSE /\ callers' = [callers EXCEPT ![c] = me]
                /\ UNCHANGED lastReturn
    /\ UNCHANGED <<agents, agent_order, tasks, task_order, published>>

\* schedule_all_pending: "await self.schedule_task(task.id)" for the next task of
\* pending_tasks
SweepStep(c) ==
    /\ callers[c].pc = "sweep"
    /\ ScheduleBegin(c, [callers[c] EXCEPT !.task_id = Head(callers[c].pending)])
    /\ UNCHANGED <<agents, agent_order, tasks, task_order, published, svc>>

(***************************************************************************)
(* Part 4.  MessageProcessor (core/services/message_processor.py) over the *)
(* in-memory message repository and the Conversation and Message entities   *)
(***************************************************************************)

\* bound on the process_message calls made
MaxProcessCalls == 2

\* bound on the conversations stored through the repository
MaxConversations == 1

\* the coroutines calling process_message
Processors == {"proc1", "proc2"}

\* Message ids are numbered as the Message objects are constructed; each call
\* constructs at most the user's message and the assistant's
MsgIds == 1..(2 * MaxProcessCalls)
ConvName == <<"k1", "k2", "k3">>
ConvIds == {ConvName[i] : i \in 1..(MaxConversations + 1)}

\* the role and conversation_id arguments of process_message
Roles == {"user", "system"}
ConvInputs == ConvIds \cup {None}

VARIABLES
    llm_service,      \* MessageProcessor.llm_service: None or the LLMService
    conversations,    \* InMemoryMessageRepository._conversations: stored?, messages
    messages,         \* InMemoryMessageRepository._messages: the Message objects by id
    message_order,    \* the iteration order of the _messages dict
    constructed,      \* how many Message objects were constructed
    procs,            \* every caller of process_message: its position
    msg_published,    \* the events passed to event_bus.publish: how many of each
    msgReturn,        \* history: the last return of process_message
    msgCalls          \* how many process_message calls were made

msgVars == <<llm_service, conversations, messages, message_order, constructed, procs,
             msg_published, msgReturn, msgCalls>>

NoMessage == [role |-> "none", conversation_id |-> None, timestamp |-> 0]
NoConversation == [stored |-> FALSE, messages |-> <<>>]
IdleProc ==
    [pc |-> "idle", role |-> "none", arg |-> None, conversation_id |-> None,
     message |-> 0, assistant_message |-> 0]
NoMsgReturn == [kind |-> "none", role |-> "none", arg |-> None, conversation_id |-> None,
                message |-> 0, llm |-> FALSE]

\* MessageProcessor.__init__ over a new InMemoryMessageRepository
MsgInit ==
    /\ llm_service = None
    /\ conversations = [k \in ConvIds |-> NoConversation]
    /\ messages = [m \in MsgIds |-> NoMessage]
    /\ message_order = <<>>
    /\ constructed = 0
    /\ procs = [p \in Processors |-> IdleProc]
    /\ msg_published = [e \in {} |-> 0]
    /\ msgReturn = NoMsgReturn
    /\ msgCalls = 0

\* the keyword arguments the Conversation dataclass accepts (its fields), and the
\* ones process_message passes: Conversation(metadata=metadata or {})
ConversationFields == {"id", "messages", "context", "created_at", "updated_at"}
ProcessorKwargs == {"metadata"}

\* Conversation(**kwargs): the generated __init__ raises TypeError on a keyword that
\* is not a field
Conversation(kwargs) == IF kwargs \subseteq ConversationFields THEN "ok" ELSE "TypeError"

\* the id a new Conversation gets (uuid4): one not stored yet
FreshConversation ==
    ConvName[Cardinality({k \in ConvIds : conversations[k].stored}) + 1]

\* MessageProcessor._publish_event: the event is handed to the bus
MsgPublish(event) ==
    IF event \in DOMAIN msg_published
    THEN [msg_published EXCEPT ![event] = @ + 1]
    ELSE msg_published @@ (event :> 1)

\* InMemoryMessageRepository.create_message: self._messages[message.id] = message
create_message(m, message) ==
    /\ messages' = [messages EXCEPT ![m] = message]
    /\ message_order' = IF \E i \in 1..Len(message_order) : message_order[i] = m
                        THEN message_order ELSE Append(message_order, m)

\* InMemoryMessageRepository.get_conversation_messages: the stored messages of the
\* conversation sorted by timestamp
get_conversation_messages(k) ==
    SortSeq(SelectSeq(message_order, LAMBDA m : messages[m].conversation_id = k),
            LAMBDA a, b : messages[a].timestamp < messages[b].timestamp)

\* a client stores a conversation through the repository:
\* create_conversation(Conversation())
RepoCreateConversation ==
    /\ Cardinality({k \in ConvIds : conversations[k].stored}) < MaxConversations
    /\ Conversation({}) = "ok"
    /\ conversations' = [conversations EXCEPT ![FreshConversation].stored = TRUE]
    /\ UNCHANGED <<llm_service, messages, message_order, constructed, procs, msg_published,
                   msgReturn, msgCalls>>

\* infrastructure/dependencies.py: the processor is built with an LLMService when an
\* LLM client is configured
SetUpLLM ==
    /\ llm_service = None
    /\ msgCalls = 0
    /\ llm_service' = "llm"
    /\ UNCHANGED <<conversations, messages, message_order, constructed, procs,
                   msg_published, msgReturn, msgCalls>>

\* process_message ends: by "return message" (kind "returned") or by an exception
MsgEnds(p, me, kind) ==
    /\ procs' = [procs EXCEPT ![p] = IdleProc]
    /\ msgReturn' = [kind |-> kind, role |-> me.role, arg |-> me.arg,
                     conversation_id |-> me.conversation_id, message |-> me.message,
                     llm |-> llm_service # None]

\* process_message from "if not conversation" to the Message built for the
\* conversation: Message(role, content, conversation_id), timestamp utcnow().  The
\* clock is read in construction order and its readings are taken distinct, so the
\* number of the Message object stands for its timestamp.
Resolve(p, me, conversation) ==
    IF conversation # None
    THEN /\ constructed' = constructed + 1
         /\ procs' = [procs EXCEPT ![p] = [me EXCEPT !.pc = "create_message",
                                                     !.conversation_id = conversation,
                                                     !.message = constructed + 1]]
         /\ UNCHANGED <<conversations, msgReturn>>
    ELSE IF Conversation(ProcessorKwargs) = "ok"
    THEN /\ conversations' = [conversations EXCEPT ![FreshConversation].stored = TRUE]
         /\ constructed' = constructed + 1
         /\ procs' = [procs EXCEPT ![p] = [me EXCEPT !.pc = "create_message",
                                                     !.conversation_id = FreshConversation,
                                                     !.message = constructed + 1]]
         /\ UNCHANGED msgReturn
    ELSE /\ MsgEnds(p, me, "TypeError")
         /\ UNCHANGED <<conversations, constructed>>

\* a caller invokes process_message(content, role, conversation_id)
ProcessMessage(p, role, conversation_id) ==
    /\ procs[p].pc = "idle"
    /\ msgCalls < MaxProcessCalls
    /\ msgCalls' = msgCalls + 1
    /\ LET me == [IdleProc EXCEPT !.role = role, !.arg = conversation_id] IN
       IF conversation_id # None
       THEN /\ procs' = [procs EXCEPT ![p] = [me EXCEPT !.pc = "get_conversation"]]
            /\ UNCHANGED <<conversations, constructed, msgReturn>>
       ELSE Resolve(p, me, None)
    /\ UNCHANGED <<llm_service, messages, message_order, msg_published>>

\* process_message: "await message_repository.get_conversation_by_id(conversation_id)"
GetConversation(p) ==
    /\ procs[p].pc = "get_conversation"
    /\ Resolve(p, procs[p],
               IF conversations[procs[p].arg].stored THEN procs[p].arg ELSE None)
    /\ UNCHANGED <<llm_service, messages, message_order, msg_published, msgCalls>>

\* process_message: "await message_repository.create_message(message)"
CreateMessage(p) ==
    /\ procs[p].pc = "create_message"
    /\ create_message(procs[p].message,
                      [role |-> procs[p].role, conversation_id |-> procs[p].conversation_id,
                       timestamp |-> procs[p].message])
    /\ procs' = [procs EXCEPT ![p].pc = "add_message"]
    /\ UNCHANGED <<llm_service, conversations, constructed, msg_published, msgReturn,
                   msgCalls>>

\* process_message: "await message_repository.add_message_to_conversation": the
\* conversation's add_message appends, then the message is stored again
AddMessage(p) ==
    /\ procs[p].pc = "add_message"
    /\ conversations' = [conversations EXCEPT ![procs[p].conversation_id].messages =
                            Append(@, procs[p].message)]
    /\ procs' = [procs EXCEPT ![p].pc = "publish_received"]
    /\ UNCHANGED <<llm_service, messages, message_order, constructed, msg_published,
                   msgReturn, msgCalls>>

\* process_message: "await self._publish_event(MessageReceived)", then "if role ==
\* 'user' and self.llm_service" or "return message"
PublishReceived(p) ==
    /\ procs[p].pc = "publish_received"
    /\ msg_published' = MsgPublish([type |-> "MessageReceived",
                                    message_id |-> procs[p].message])
    /\ IF PublishEscapes
       THEN MsgEnds(p, procs[p], "publish_failed")
       ELSE IF procs[p].role = "user" /\ llm_service # None
       THEN /\ procs' = [procs EXCEPT ![p].pc = "history"]
            /\ UNCHANGED msgReturn
       ELSE MsgEnds(p, procs[p], "returned")
    /\ UNCHANGED <<llm_service, conversations, messages, message_order, constructed,
                   msgCalls>>

\* _generate_response: "await message_repository.get_conversation_messages" and the
\* context built from it
History(p) ==
    /\ procs[p].pc = "history"
    /\ procs' = [procs EXCEPT ![p].pc = "generate"]
    /\ UNCHANGED <<llm_service, conversations, messages, message_order, constructed,
                   msg_published, msgReturn, msgCalls>>

\* what _generate_response does with an exception of its try block: "except
\* Exception" logs it and re-raises
generate_except_Swallows == "return"

generate_except == "raise"

\* _generate_response: "await self.llm_service.generate(prompt, context)" returns a
\* response, and the assistant's Message is built, or raises: "except Exception"
\* logs and re-raises, and process_message ends by that exception
Generate(p, outcome) ==
    /\ procs[p].pc = "generate"
    /\ IF outcome = "raise"
       THEN /\ MsgEnds(p, procs[p], IF generate_except = "raise"
                                    THEN "generation_failed" ELSE "returned")
            /\ UNCHANGED constructed
       ELSE /\ constructed' = constructed + 1
            /\ procs' = [procs EXCEPT ![p].pc = "create_assistant",
                                      ![p].assistant_message = constructed + 1]
            /\ UNCHANGED msgReturn
    /\ UNCHANGED <<llm_service, conversations, messages, message_order, msg_published,
                   msgCalls>>

\* _generate_response: "await message_repository.create_message(assistant_message)"
CreateAssistant(p) ==
    /\ procs[p].pc = "create_assistant"
    /\ create_message(procs[p].assistant_message,
                      [role |-> "assistant", conversation_id |-> procs[p].conversation_id,
                       timestamp |-> procs[p].assistant_message])
    /\ procs' = [procs EXCEPT ![p].pc = "add_assistant"]
    /\ UNCHANGED <<llm_service, conversations, constructed, msg_published, msgReturn,
                   msgCalls>>

\* _generate_response: "await message_repository.add_message_to_conversation"
AddAssistant(p) ==
    /\ procs[p].pc = "add_assistant"
    /\ conversations' = [conversations EXCEPT ![procs[p].conversation_id].messages =
                            Append(@, procs[p].assistant_message)]
    /\ procs' = [procs EXCEPT ![p].pc = "publish_processed"]
    /\ UNCHANGED <<llm_service, messages, message_order, constructed, msg_published,
                   msgReturn, msgCalls>>

\* _generate_response: "await self._publish_event(MessageProcessed)"; process_message
\* returns the user's message
PublishProcessed(p) ==
    /\ procs[p].pc = "publish_processed"
    /\ msg_published' = MsgPublish([type |-> "MessageProcessed",
                                    message_id |-> procs[p].message])
    /\ MsgEnds(p, procs[p], IF PublishEscapes THEN "publish_failed" ELSE "returned")
    /\ UNCHANGED <<llm_service, conversations, messages, message_order, constructed,
                   msgCalls>>

vars == <<taskVars, busVars, schedVars, msgVars, event_bus>>

\* the services are constructed with a bus whose publish works
Init == TaskInit /\ BusInit /\ SchedInit /\ MsgInit /\ event_bus = BusWorks

\* Each part of the program runs on its own: a step of one part leaves the
\* state of the others alone.
TaskOnly == UNCHANGED <<busVars, schedVars, msgVars, event_bus>>
BusOnly == UNCHANGED <<taskVars, schedVars, msgVars, event_bus>>
SchedOnly == UNCHANGED <<taskVars, busVars, msgVars, event_bus>>
MsgOnly == UNCHANGED <<taskVars, busVars, schedVars, event_bus>>

NextTask ==
    \/ CallAssignTo /\ TaskOnly
    \/ CallStart /\ TaskOnly
    \/ CallComplete /\ TaskOnly
    \/ CallFail /\ TaskOnly
    \/ CallCancel /\ TaskOnly

NextBus ==
    \/ \E p \in Publishers, ty \in EventTypes : PublishStart(p, ty) /\ BusOnly
    \/ \E p \in Publishers : PublishHandlerDone(p) /\ BusOnly
    \/ \E ty \in EventTypes, h \in Handlers, deferred \in BOOLEAN : Subscribe(ty, h, deferred) /\ BusOnly
    \/ \E ty \in EventTypes, h \in Handlers : Unsubscribe(ty, h) /\ BusOnly
    \/ \E l \in LoopIds : LoopStart(l) /\ BusOnly
    \/ \E l \in LoopIds : LoopWake(l) /\ BusOnly
    \/ \E l \in LoopIds : LoopHandlerDone(l) /\ BusOnly
    \/ StopCall /\ BusOnly
    \/ StopTaskDone /\ BusOnly
    \/ StopJoinDone /\ BusOnly

\* history: the calls the clients of the two services have made so far: create_agent,
\* create_task and the bounded service calls
NumClientCalls ==
    Len(agent_order) + Len(task_order) + NumServiceCalls + svc.schedule_all_pending

\* the clients make no more than MaxClientCalls calls
WithinBudget == NumClientCalls < MaxClientCalls

NextSched ==
    \/ \E caps \in AgentCapSets : WithinBudget /\ CreateAgent(caps) /\ SchedOnly
    \/ \E a \in AgentIds, st \in StatusInputs :
          WithinBudget /\ UpdateAgentStatus(a, st) /\ SchedOnly
    \/ \E t \in TaskIds, op \in {"start", "complete", "fail", "cancel"} :
          WithinBudget /\ ExecutorCall(t, op) /\ SchedOnly
    \/ \E c \in Callers, t \in TaskIds : WithinBudget /\ ScheduleTask(c, t) /\ SchedOnly
    \/ \E c \in Callers : ScheduleFind(c) /\ SchedOnly
    \/ \E c \in Callers : ScheduleAssign(c) /\ SchedOnly
    \/ \E c \in Callers : ScheduleUpdate(c) /\ SchedOnly
    \/ \E c \in Callers : SchedulePublish(c) /\ SchedOnly
    \/ \E c \in Callers, required \in RequiredSets :
          WithinBudget /\ CreateTask(c, required, SomePayload) /\ SchedOnly
    \/ \E c \in Callers : CreatePublish(c) /\ SchedOnly
    \/ \E c \in Callers : CreateSchedule(c) /\ SchedOnly

\* The scheduler wired to the bus (infrastructure/dependencies.py): TaskAssigned is
\* handed to EventBus.publish, whose subscribers here are deferred ones only, so the
\* publish runs without suspension inside the scheduler's step.  Events of the other
\* types have no subscriber and leave the bus as it is.  The subscriber registers its
\* handler once, at any time.
SweepOnly == UNCHANGED <<taskVars, msgVars, event_bus>>

\* the client of the services awaits each call before making the next one
Quiet == (\A c \in Callers : callers[c].pc = "idle") /\ WithinBudget

NextSweep ==
    \/ \E caps \in AgentCapSets : Quiet /\ CreateAgent(caps) /\ SchedOnly
    \/ \E a \in AgentIds, st \in StatusInputs :
          Quiet /\ UpdateAgentStatus(a, st) /\ SchedOnly
    \/ \E c \in Callers, required \in RequiredSets :
          Quiet /\ CreateTask(c, required, SomePayload) /\ SchedOnly
    \/ \E c \in Callers : CreatePublish(c) /\ SchedOnly
    \/ \E c \in Callers : CreateSchedule(c) /\ SchedOnly
    \/ \E c \in Callers : Quiet /\ SweepCall(c) /\ SchedOnly
    \/ \E c \in Callers : SweepStep(c) /\ SchedOnly
    \/ \E c \in Callers : ScheduleFind(c) /\ SchedOnly
    \/ \E c \in Callers : ScheduleAssign(c) /\ SchedOnly
    \/ \E c \in Callers : ScheduleUpdate(c) /\ SchedOnly
    \/ \E c \in Callers, p \in Publishers :
          SchedulePublish(c) /\ PublishStart(p, "TaskAssigned") /\ SweepOnly
    \/ /\ ~Contains(Get(async_handlers, "TaskAssigned"), Subscriber)
       /\ Subscribe("TaskAssigned", Subscriber, TRUE) /\ BusOnly
    \/ \E l \in LoopIds : LoopStart(l) /\ BusOnly
    \/ \E l \in LoopIds : LoopWake(l) /\ BusOnly
    \/ \E l \in LoopIds : LoopHandlerDone(l) /\ BusOnly

\* The orchestrator's assign_task_to_agent called directly by a client that awaits
\* each of its calls, on the tasks create_task has stored; create_task gets an empty
\* or a non-empty payload.
NextAssign ==
    \/ \E caps \in AgentCapSets : Quiet /\ CreateAgent(caps) /\ SchedOnly
    \/ \E a \in AgentIds, st \in StatusInputs :
          Quiet /\ UpdateAgentStatus(a, st) /\ SchedOnly
    \/ \E c \in Callers, required \in RequiredSets, payload \in Payloads :
          Quiet /\ CreateTask(c, required, payload) /\ SchedOnly
    \/ \E c \in Callers : CreatePublish(c) /\ SchedOnly
    \/ \E c \in Callers : CreateSchedule(c) /\ SchedOnly
    \/ \E c \in Callers : ScheduleFind(c) /\ SchedOnly
    \/ \E c \in Callers : ScheduleAssign(c) /\ SchedOnly
    \/ \E c \in Callers : ScheduleUpdate(c) /\ SchedOnly
    \/ \E c \in Callers : SchedulePublish(c) /\ SchedOnly
    \/ \E c \in Callers, t \in TaskIds, a \in AgentIds :
          Quiet /\ AssignTaskToAgent(c, t, a) /\ SchedOnly

\* Two coroutines call create_task and schedule_task concurrently: each runs up to
\* its next await, then the event loop resumes either; agents are created and their
\* status updated in between.
NextRace ==
    \/ \E caps \in AgentCapSets : WithinBudget /\ CreateAgent(caps) /\ SchedOnly
    \/ \E a \in AgentIds, st \in StatusInputs :
          WithinBudget /\ UpdateAgentStatus(a, st) /\ SchedOnly
    \/ \E c \in Racers, t \in TaskIds : WithinBudget /\ ScheduleTask(c, t) /\ SchedOnly
    \/ \E c \in Racers : ScheduleFind(c) /\ SchedOnly
    \/ \E c \in Racers : ScheduleAssign(c) /\ SchedOnly
    \/ \E c \in Racers : ScheduleUpdate(c) /\ SchedOnly
    \/ \E c \in Racers : SchedulePublish(c) /\ SchedOnly
    \/ \E c \in Racers, required \in RequiredSets :
          WithinBudget /\ CreateTask(c, required, SomePayload) /\ SchedOnly
    \/ \E c \in Racers : CreatePublish(c) /\ SchedOnly
    \/ \E c \in Racers : CreateSchedule(c) /\ SchedOnly

\* All scheduling operations offered to a client that awaits each of its calls:
\* create_task, schedule_task, schedule_all_pending and assign_task_to_agent, with
\* agents created and their status updated between the calls.
NextEffect ==
    \/ \E caps \in AgentCapSets : Quiet /\ CreateAgent(caps) /\ SchedOnly
    \/ \E a \in AgentIds, st \in StatusInputs :
          Quiet /\ UpdateAgentStatus(a, st) /\ SchedOnly
    \/ \E c \in Callers, required \in RequiredSets :
          Quiet /\ CreateTask(c, required, SomePayload) /\ SchedOnly
    \/ \E c \in Callers : CreatePublish(c) /\ SchedOnly
    \/ \E c \in Callers : CreateSchedule(c) /\ SchedOnly
    \/ \E c \in Callers, t \in TaskIds : Quiet /\ ScheduleTask(c, t) /\ SchedOnly
    \/ \E c \in Callers : Quiet /\ SweepCall(c) /\ SchedOnly
    \/ \E c \in Callers : SweepStep(c) /\ SchedOnly
    \/ \E c \in Callers, t \in TaskIds, a \in AgentIds :
          Quiet /\ AssignTaskToAgent(c, t, a) /\ SchedOnly
    \/ \E c \in Callers : ScheduleFind(c) /\ SchedOnly
    \/ \E c \in Callers : ScheduleAssign(c) /\ SchedOnly
    \/ \E c \in Callers : ScheduleUpdate(c) /\ SchedOnly
    \/ \E c \in Callers : SchedulePublish(c) /\ SchedOnly

\* bound on the calls made by a client of all three services
MaxPubCalls == 4

\* the coroutine of that client when it calls process_message
Client == "proc1"

\* history: the calls a client of all services has made
NumAllCalls == NumClientCalls + msgCalls

\* the client awaits each call before making the next one, within its budget
AllQuiet ==
    /\ \A c \in Callers : callers[c].pc = "idle"
    /\ \A p \in Processors : procs[p].pc = "idle"
    /\ NumAllCalls < MaxPubCalls

\* The operations that publish an event, called one after the other by a client of
\* the orchestrator, the scheduler and the message processor.
NextPub ==
    \/ \E caps \in AgentCapSets : AllQuiet /\ CreateAgent(caps) /\ SchedOnly
    \/ \E a \in AgentIds, st \in StatusInputs :
          AllQuiet /\ UpdateAgentStatus(a, st) /\ SchedOnly
    \/ \E c \in Callers, required \in RequiredSets :
          AllQuiet /\ CreateTask(c, required, SomePayload) /\ SchedOnly
    \/ \E c \in Callers : CreatePublish(c) /\ SchedOnly
    \/ \E c \in Callers : CreateSchedule(c) /\ SchedOnly
    \/ \E c \in Callers, t \in TaskIds : AllQuiet /\ ScheduleTask(c, t) /\ SchedOnly
    \/ \E c \in Callers : ScheduleFind(c) /\ SchedOnly
    \/ \E c \in Callers : ScheduleAssign(c) /\ SchedOnly
    \/ \E c \in Callers : ScheduleUpdate(c) /\ SchedOnly
    \/ \E c \in Callers : SchedulePublish(c) /\ SchedOnly
    \/ AllQuiet /\ SetUpLLM /\ MsgOnly
    \/ AllQuiet /\ RepoCreateConversation /\ MsgOnly
    \/ \E role \in Roles, conversation_id \in ConvInputs :
          AllQuiet /\ ProcessMessage(Client, role, conversation_id) /\ MsgOnly
    \/ \E p \in Processors : GetConversation(p) /\ MsgOnly
    \/ \E p \in Processors : CreateMessage(p) /\ MsgOnly
    \/ \E p \in Processors : AddMessage(p) /\ MsgOnly
    \/ \E p \in Processors : PublishReceived(p) /\ MsgOnly
    \/ \E p \in Processors : History(p) /\ MsgOnly
    \/ \E p \in Processors, outcome \in {"response", "raise"} : Generate(p, outcome) /\ MsgOnly
    \/ \E p \in Processors : CreateAssistant(p) /\ MsgOnly
    \/ \E p \in Processors : AddAssistant(p) /\ MsgOnly
    \/ \E p \in Processors : PublishProcessed(p) /\ MsgOnly

NextMsg ==
    \/ SetUpLLM /\ MsgOnly
    \/ RepoCreateConversation /\ MsgOnly
    \/ \E p \in Processors, role \in Roles, conversation_id \in ConvInputs :
          ProcessMessage(p, role, conversation_id) /\ MsgOnly
    \/ \E p \in Processors : GetConversation(p) /\ MsgOnly
    \/ \E p \in Processors : CreateMessage(p) /\ MsgOnly
    \/ \E p \in Processors : AddMessage(p) /\ MsgOnly
    \/ \E p \in Processors : PublishReceived(p) /\ MsgOnly
    \/ \E p \in Processors : History(p) /\ MsgOnly
    \/ \E p \in Processors, outcome \in {"response", "raise"} : Generate(p, outcome) /\ MsgOnly
    \/ \E p \in Processors : CreateAssistant(p) /\ MsgOnly
    \/ \E p \in Processors : AddAssistant(p) /\ MsgOnly
    \/ \E p \in Processors : PublishProcessed(p) /\ MsgOnly

SpecTask == Init /\ [][NextTask]_vars
SpecBus == Init /\ [][NextBus]_vars
SpecSched == Init /\ [][NextSched]_vars

\* the event loop runs every coroutine that is ready: a service call in progress is
\* resumed, and so is a consumption loop that was created or has an event to take
ServiceRuns ==
    \E c \in Callers :
        \/ CreatePublish(c) /\ SchedOnly
        \/ CreateSchedule(c) /\ SchedOnly
        \/ SweepStep(c) /\ SchedOnly
        \/ ScheduleFind(c) /\ SchedOnly
        \/ ScheduleAssign(c) /\ SchedOnly
        \/ ScheduleUpdate(c) /\ SchedOnly
        \/ \E p \in Publishers :
              SchedulePublish(c) /\ PublishStart(p, "TaskAssigned") /\ SweepOnly
LoopRuns ==
    \E l \in LoopIds : (LoopStart(l) \/ LoopWake(l) \/ LoopHandlerDone(l)) /\ BusOnly

\* the event loop resumes every coroutine of the bus that is ready: a consumption
\* loop that was created, has an event to take or whose handler has ended, a publish
\* whose handler has ended, and a stop() whose awaited task or join() is done
PublishRuns == \E p \in Publishers : PublishHandlerDone(p) /\ BusOnly
StopRuns == (StopTaskDone \/ StopJoinDone) /\ BusOnly

\* the bus under fair scheduling of its coroutines; the callers are free to call or not
SpecBusLive ==
    Init /\ [][NextBus]_vars /\ WF_vars(LoopRuns) /\ WF_vars(PublishRuns) /\ WF_vars(StopRuns)

SpecAssign == Init /\ [][NextAssign]_vars
SpecMsg == Init /\ [][NextMsg]_vars
SpecEffect == Init /\ [][NextEffect]_vars

\* the services are constructed with a bus whose publish raises
InitPub == TaskInit /\ BusInit /\ SchedInit /\ MsgInit /\ event_bus = BusRaises
SpecPub == InitPub /\ [][NextPub]_vars

\* the state after construction when two coroutines are about to call the scheduler
InitRace == TaskInit /\ BusInit /\ RaceInit /\ MsgInit /\ event_bus = BusWorks
SpecRace == InitRace /\ [][NextRace]_vars
SpecSweep == Init /\ [][NextSweep]_vars /\ WF_vars(ServiceRuns) /\ WF_vars(LoopRuns)

(***************************************************************************)
(* Properties of the Task entity (SpecTask)                                *)
(***************************************************************************)

Terminal == {COMPLETED, FAILED, CANCELLED}

\* a call follows the edge set E (of <<method, status before, status after>>): it moves along an edge of E, or it raises and
\* leaves the status alone
Follows(E) ==
    lastCall.op # "none" =>
        IF \E e \in E : e[1] = lastCall.op /\ e[2] = lastCall.pre.status
        THEN ~lastCall.raised /\ <<lastCall.op, lastCall.pre.status, task.status>> \in E
        ELSE lastCall.raised /\ task.status = lastCall.pre.status

\* C1 as stated: every call moves along one of the five listed edges
\* (CREATED->ASSIGNED, ASSIGNED->IN_PROGRESS, IN_PROGRESS->COMPLETED / FAILED /
\* CANCELLED) or raises and leaves the status unchanged.
C1_ListedEdgesOnly ==
    Follows({<<"assign_to", CREATED, ASSIGNED>>, <<"start", ASSIGNED, IN_PROGRESS>>,
             <<"complete", IN_PROGRESS, COMPLETED>>, <<"fail", IN_PROGRESS, FAILED>>,
             <<"cancel", IN_PROGRESS, CANCELLED>>})

\* C1 amended: every call moves along an edge task.py accepts (assign_to from
\* CREATED; start from CREATED or ASSIGNED; complete from IN_PROGRESS; cancel from
\* any non-terminal status; fail from every status, never raising) or raises and
\* leaves the status unchanged.
C1_AcceptedEdgesOnly ==
    Follows({<<"assign_to", CREATED, ASSIGNED>>,
             <<"start", CREATED, IN_PROGRESS>>, <<"start", ASSIGNED, IN_PROGRESS>>,
             <<"complete", IN_PROGRESS, COMPLETED>>,
             <<"cancel", CREATED, CANCELLED>>, <<"cancel", ASSIGNED, CANCELLED>>,
             <<"cancel", IN_PROGRESS, CANCELLED>>}
            \cup {<<"fail", st, FAILED>> : st \in TaskStatus})

\* C1 witness: start() was accepted on a task that was never assigned
C1_Witness ==
    /\ lastCall.op = "start"
    /\ lastCall.pre.status = CREATED
    /\ ~lastCall.raised
    /\ task.status = IN_PROGRESS

\* C2 as stated: terminal statuses are absorbing, i.e. a transition call on a
\* COMPLETED, FAILED or CANCELLED task raises and leaves the status unchanged.
C2_TerminalAbsorbing ==
    (lastCall.op # "none" /\ lastCall.pre.status \in Terminal) =>
        (lastCall.raised /\ task.status = lastCall.pre.status)

\* C22 as stated: in every reachable Task state, result is set only when the
\* status is COMPLETED, error is set only when the status is FAILED, and no task
\* carries both a result and an error.
C22_ResultXorError ==
    /\ task.result # None => task.status = COMPLETED
    /\ task.error # None => task.status = FAILED
    /\ ~(task.result # None /\ task.error # None)

\* C30: a rejected transition is atomic, i.e. when assign_to, start, complete or
\* cancel raises, every field of the task (status, assigned_agent, result, error,
\* started_at, completed_at, updated_at) is as it was before the call.
C30_RejectedCallChangesNothing ==
    (lastCall.op \in {"assign_to", "start", "complete", "cancel"} /\ lastCall.raised) =>
        task = lastCall.pre

\* C30 witness: cancel() was rejected on a completed task that carries an agent, a
\* result and its timestamps, at a clock reading later than all of them
C30_Witness ==
    /\ lastCall.op = "cancel"
    /\ lastCall.raised
    /\ lastCall.pre.status = COMPLETED
    /\ lastCall.pre.assigned_agent # None
    /\ lastCall.pre.result # None
    /\ lastCall.pre.updated_at < clock - 1
    /\ task = lastCall.pre

(***************************************************************************)
(* Properties of the EventBus (SpecBus)                                    *)
(***************************************************************************)

\* the loop tasks that exist and have not finished
LiveLoops == {l \in LoopIds : loops[l].pc \in {"new", "get", "handler"}}

\* C3: an event whose delivery is over, with the deferred registry of its type
\* unchanged and the bus not stopped since it was enqueued, has been handed to each
\* deferred handler exactly as often as the handler is registered (M handlers, N
\* events: M*N invocations, none lost, none doubled).
C3_ExactlyOncePerDeferredHandler ==
    \A e \in EventIds :
        (evs[e].state = "done" /\ ~evs[e].ddist) =>
            \A h \in Handlers : dcount[e][h] = Count(evs[e].snap, h)

\* C3 witness: two events of one type, two deferred handlers, four invocations
C3_Witness ==
    /\ evs[1].state = "done" /\ evs[2].state = "done"
    /\ evs[1].type = evs[2].type
    /\ ~evs[1].ddist /\ ~evs[2].ddist
    /\ evs[1].snap = <<"h2", "h1">> /\ evs[2].snap = <<"h2", "h1">>
    /\ \A e \in {1, 2} : \A h \in Handlers : dcount[e][h] = 1

\* C4 as stated: deferred delivery is FIFO, i.e. once a deferred handler has been
\* invoked for an event, no deferred handler is invoked any more for an event
\* enqueued before it.
C4_DeferredFIFO ==
    [][\A e1, e2 \in EventIds :
          (/\ evs[e1].seq > 0
           /\ evs[e2].seq > evs[e1].seq
           /\ \E h \in Handlers : dcount[e2][h] > 0)
          => \A h \in Handlers : dcount'[e1][h] = dcount[e1][h]]_vars

\* C5: a raising handler is isolated in both modes: publish() never ends by an
\* exception; once publish() is past its immediate handlers, each of them was invoked
\* (registry of the type unchanged meanwhile), also those after a raising one; and an
\* event the loop is through with was handed to every deferred handler.
C5_HandlerFailureIsolated ==
    \A e \in EventIds :
        /\ evs[e].state # "raised"
        /\ (evs[e].state \in {"queued", "inflight", "done", "aborted", "skipped"}
               /\ ~evs[e].idist)
           => \A h \in Handlers : icount[e][h] = Count(evs[e].isnap, h)
        /\ (evs[e].state \in {"done", "aborted"} /\ ~evs[e].ddist)
           => \A h \in Handlers : dcount[e][h] = Count(evs[e].snap, h)

\* C5 witness: publish() returned after a raising immediate handler and the handler
\* registered after it
C5_Witness ==
    \E e \in EventIds :
        /\ evs[e].state \in {"queued", "skipped"}
        /\ evs[e].isnap = <<"h2", "h1">>
        /\ ~evs[e].idist
        /\ icount[e]["h2"] = 1 /\ icount[e]["h1"] = 1

\* C6 as stated: when stop() returns, the queue is empty and every event enqueued
\* before the call has been handed to every deferred handler of its type (registered
\* when it was enqueued and still registered).
C6_StopDrainsQueue ==
    [][calls'.stopped > calls.stopped =>
          /\ event_queue' = <<>>
          /\ \A e \in stopCall'.pending : \A h \in Handlers :
                (Contains(evs'[e].snap, h)
                    /\ Contains(Get(async_handlers', evs'[e].type), h))
                => dcount'[e][h] >= 1]_vars

\* C7 as stated: at most one consumption loop exists at any time.
C7_AtMostOneLoop == Cardinality(LiveLoops) <= 1

\* C18 as stated: when the handler loop of a publish (immediate mode) or of the
\* consumption loop (deferred mode) ends for an event, every handler that was
\* registered once for the event's type when the delivery started and is registered
\* once when it ends has been invoked exactly once for the event, whatever subscribe
\* and unsubscribe calls were made while a handler was awaited.
C18_StableHandlersOnce ==
    [][\A e \in EventIds : \A h \in Handlers :
          /\ (/\ evs[e].state = "dispatching"
              /\ evs'[e].state \in {"queued", "skipped"}
              /\ Count(evs[e].isnap, h) = 1
              /\ Count(Get(handlers', evs[e].type), h) = 1)
             => icount'[e][h] = 1
          /\ (/\ evs[e].state = "inflight"
              /\ evs'[e].state = "done"
              /\ Count(evs[e].snap, h) = 1
              /\ Count(Get(async_handlers', evs[e].type), h) = 1)
             => dcount'[e][h] = 1]_vars

\* C19: within one publish the put on the deferred queue comes last: in the step that
\* enqueues an event, publish is through with its immediate handlers (none is still
\* awaited, and with the registry of the type unchanged meanwhile each was invoked as
\* often as it is registered, the raising ones included); after the put no immediate
\* handler is invoked for the event any more, and no deferred handler is invoked for
\* an event that was not put.
C19_ImmediateBeforeEnqueue ==
    [][\A e \in EventIds :
          /\ (evs[e].seq = 0 /\ evs'[e].seq > 0) =>
                /\ evs'[e].state = "queued"
                /\ \A p \in Publishers : pubs'[p].pc = "handler" => pubs'[p].ev.id # e
                /\ ~evs'[e].idist =>
                      \A h \in Handlers : icount'[e][h] = Count(evs'[e].isnap, h)
          /\ evs[e].seq > 0 => icount'[e] = icount[e]
          /\ (\E h \in Handlers : dcount'[e][h] > 0) => evs'[e].seq > 0]_vars

\* C19 witness: an event was enqueued for a deferred handler after its two immediate
\* handlers, one of them raising, had been invoked
C19_Witness ==
    \E e \in EventIds :
        /\ evs[e].state = "queued"
        /\ evs[e].snap # <<>>
        /\ Len(evs[e].isnap) = 2
        /\ ~evs[e].idist
        /\ \A h \in Handlers : icount[e][h] = 1
        /\ \A h \in Handlers : dcount[e][h] = 0

\* EventBus.get_subscribed_events: the keys of the two registries
get_subscribed_events == DOMAIN handlers \cup DOMAIN async_handlers

\* C20 as stated: after unsubscribe(event_type, h) has returned, h is registered for
\* the type in neither mode; and an unsubscribe that removes nothing (h was not
\* registered) leaves the bus as it was: the registries, the set of subscribed event
\* types and whether publish enqueues an event of a type.
C20_UnsubscribeRemovesOrNothing ==
    [][calls'.unsubscribe > calls.unsubscribe =>
          /\ \A ty \in EventTypes : \A h \in Handlers :
                (\/ Count(Get(handlers', ty), h) < Count(Get(handlers, ty), h)
                 \/ Count(Get(async_handlers', ty), h) < Count(Get(async_handlers, ty), h))
                => /\ ~Contains(Get(handlers', ty), h)
                   /\ ~Contains(Get(async_handlers', ty), h)
          /\ (\A ty \in EventTypes :
                 /\ Get(handlers', ty) = Get(handlers, ty)
                 /\ Get(async_handlers', ty) = Get(async_handlers, ty))
             => /\ handlers' = handlers
                /\ async_handlers' = async_handlers
                /\ get_subscribed_events' = get_subscribed_events
                /\ \A ty \in EventTypes : publish_enqueues(ty)' = publish_enqueues(ty)]_vars

\* C25 as stated: after stop() returns no consumption loop is running (so that,
\* without a new deferred subscription, no deferred handler is invoked for an event
\* published later), also when stop() is called right after the first deferred
\* subscribe or after several deferred subscribes.
C25_NoLoopAfterStop ==
    [][calls'.stopped > calls.stopped => LiveLoops' = {}]_vars

\* C26 as stated: publish puts an event on the deferred queue only if at least one
\* deferred handler is registered for its type at that moment, so that no event
\* accumulates on the queue when no deferred handler is registered at publish time.
C26_EnqueueNeedsHandler ==
    \A e \in EventIds : evs[e].seq > 0 => Len(evs[e].snap) >= 1

(***************************************************************************)
(* Properties of EventBus.stop under fair scheduling (SpecBusLive)         *)
(***************************************************************************)

\* C24 as stated: stop() always terminates, i.e. whatever is queued or in flight
\* when it is called, and handlers terminating, a call of stop() eventually returns.
C24_StopReturns == (stopCall.pc # "idle") ~> (stopCall.pc = "idle")

(***************************************************************************)
(* Properties of scheduling (SpecSched)                                    *)
(***************************************************************************)

\* the step in which caller c runs the beginning of schedule_task (called directly or
\* by create_task), and the task id it was called with
BeginsSchedule(c) ==
    \/ callers[c].pc = "idle" /\ svc'.schedule_task = svc.schedule_task + 1
    \/ callers[c].pc = "schedule" /\ callers'[c].pc # "schedule"
CalledTask(c) ==
    IF callers[c].pc = "schedule" THEN callers[c].task_id
    ELSE IF callers'[c].pc = "idle" THEN lastReturn'.task_id ELSE callers'[c].task_id

\* the step in which caller c runs find_available_agent, and its result
RunsFind(c) == callers[c].pc = "find" /\ callers'[c].pc # "find"
Found(c) == IF callers'[c].pc = "assign" THEN callers'[c].agent_id ELSE None

\* agent a is ACTIVE or IDLE and has every capability in required
Eligible(a, required) ==
    /\ agents[a].status \in {ACTIVE, IDLE}
    /\ required \subseteq agents[a].capabilities
Position(a) == CHOOSE i \in 1..Len(agent_order) : agent_order[i] = a

\* C8: schedule_task on a stored task that is not CREATED returns that task at once:
\* no field of any task changes, nothing is published, and the call has made no
\* task_repository.update, no agent query and no TaskAssigned event.
C8_ScheduleIdempotentWhenNotCreated ==
    [][\A c \in Callers :
          (/\ BeginsSchedule(c)
           /\ CalledTask(c) \in TaskIds
           /\ tasks[CalledTask(c)].status \in TaskStatus \ {CREATED})
          => /\ callers'[c].pc = "idle"
             /\ lastReturn'.ret = CalledTask(c)
             /\ tasks' = tasks
             /\ agents' = agents
             /\ published' = published
             /\ lastReturn'.writes = 0
             /\ lastReturn'.queries = 0
             /\ lastReturn'.events = 0]_vars

\* C8 witness: schedule_task called again on a task that create_task's own
\* scheduling has already ASSIGNED
C8_Witness ==
    /\ lastReturn.op = "schedule_task"
    /\ lastReturn.kind = "not_created"
    /\ \E e \in DOMAIN published :
          e.type = "TaskAssigned" /\ e.task_id = lastReturn.task_id
    /\ tasks[lastReturn.task_id].status = ASSIGNED

\* C9: find_available_agent returns None exactly when no stored agent is ACTIVE or
\* IDLE with all required capabilities, and otherwise the first such agent in the
\* repository's iteration order.
C9_FindFirstEligibleAgent ==
    [][\A c \in Callers :
          RunsFind(c) =>
             LET required == tasks[callers[c].task_id].required_capabilities
                 known == {agent_order[i] : i \in 1..Len(agent_order)}
             IN  /\ (Found(c) = None) <=> ~\E a \in known : Eligible(a, required)
                 /\ Found(c) # None =>
                       /\ Found(c) \in known
                       /\ Eligible(Found(c), required)
                       /\ \A a \in known :
                             Position(a) < Position(Found(c)) => ~Eligible(a, required)]_vars

\* C9 witness: the first agent is available but lacks a required capability, the
\* second one is returned
C9_Witness ==
    \E c \in Callers :
        /\ callers[c].pc = "assign"
        /\ Len(agent_order) = 2
        /\ callers[c].agent_id = agent_order[2]
        /\ agents[agent_order[1]].status \in {ACTIVE, IDLE}
        /\ tasks[callers[c].task_id].required_capabilities # {}

\* C10: when the agent search of schedule_task (called directly or by create_task)
\* finds no eligible agent, the call returns the task normally: no task changes (a
\* CREATED task stays CREATED with no assigned agent), nothing is published, and the
\* call has made no task_repository.update and no TaskAssigned event.
C10_NoAgentIsNotAnError ==
    [][\A c \in Callers :
          (/\ RunsFind(c)
           /\ ~\E i \in 1..Len(agent_order) :
                  Eligible(agent_order[i], tasks[callers[c].task_id].required_capabilities))
          => /\ callers'[c].pc = "idle"
             /\ lastReturn'.kind = "no_agent"
             /\ lastReturn'.ret = callers[c].task_id
             /\ tasks' = tasks
             /\ tasks[callers[c].task_id].status = CREATED =>
                   /\ tasks'[callers[c].task_id].status = CREATED
                   /\ tasks'[callers[c].task_id].assigned_agent = None
             /\ published' = published
             /\ lastReturn'.writes = 0
             /\ lastReturn'.events = 0]_vars

\* C10 witness: create_task returned a task left CREATED for want of an agent
C10_Witness ==
    /\ lastReturn.op = "create_task"
    /\ lastReturn.kind = "no_agent"
    /\ tasks[lastReturn.task_id].status = CREATED
    /\ tasks[lastReturn.task_id].assigned_agent = None

\* C12 as stated: an update_agent_status call whose new status equals the agent's
\* current status is a no-op: it publishes no AgentStatusChanged event and leaves
\* the agent (status, updated_at) unchanged; an event is published only when the
\* status changes.
C12_SameStatusIsSilent ==
    [][(/\ svc'.update_agent_status > svc.update_agent_status
        /\ \A a \in AgentIds : agents'[a].status = agents[a].status)
       => (published' = published /\ agents' = agents)]_vars

\* schedule_task resumes at "await agent_orchestrator.assign_task_to_agent" in this step
RunsAssign(c) == callers[c].pc = "assign" /\ callers'[c].pc # "assign"

\* C27: a task is assigned only to an agent that is ACTIVE or IDLE when the
\* assignment is applied, also when update_agent_status ran between
\* find_available_agent and assign_task_to_agent; if the chosen agent is no longer
\* available, schedule_task returns the task normally, and the call has left the
\* task as it was (a CREATED task still CREATED with no assigned_agent) and has
\* published no TaskAssigned event.
C27_AssignOnlyToAvailable ==
    [][/\ \A t \in TaskIds :
            (tasks[t].status = CREATED /\ tasks'[t].status = ASSIGNED) =>
                /\ tasks'[t].assigned_agent \in AgentIds
                /\ agents[tasks'[t].assigned_agent].status \in {ACTIVE, IDLE}
                /\ agents' = agents
       /\ \A c \in Callers :
            (RunsAssign(c) /\ agents[callers[c].agent_id].status \notin {ACTIVE, IDLE}) =>
                LET t == callers[c].task_id IN
                /\ lastReturn'.kind = "assign_failed"
                /\ lastReturn'.ret = t
                /\ lastReturn'.writes = 0
                /\ lastReturn'.events = 0
                /\ tasks' = tasks
                /\ published' = published
                /\ AssignedEvents(t) = {}
                /\ tasks[t].status = CREATED =>
                       tasks'[t].status = CREATED /\ tasks'[t].assigned_agent = None]_vars

\* C27 witness: schedule_task found an agent, update_agent_status made it BUSY, and
\* the call returned the task still CREATED without an event
C27_Witness ==
    /\ lastReturn.kind = "assign_failed"
    /\ lastReturn.queries = 1
    /\ lastReturn.agent_id \in AgentIds
    /\ agents[lastReturn.agent_id].status = BUSY
    /\ lastReturn.ret \in TaskIds
    /\ tasks[lastReturn.ret].status = CREATED
    /\ tasks[lastReturn.ret].assigned_agent = None
    /\ AssignedEvents(lastReturn.ret) = {}

(***************************************************************************)
(* Properties of assign_task_to_agent called directly (SpecAssign)         *)
(***************************************************************************)

\* caller c invokes assign_task_to_agent in this step
BeginsAssign(c) == svc'.assign_task_to_agent > svc.assign_task_to_agent /\ callers[c].pc = "idle"

\* the arguments of the call that begins in this step
AssignAgent(c) ==
    IF callers'[c].pc = "idle" THEN lastReturn'.agent_id ELSE callers'[c].agent_id
AssignTask(c) ==
    IF callers'[c].pc = "idle" THEN lastReturn'.task_id ELSE callers'[c].task_id

\* C13: assign_task_to_agent raises a not-found error when no agent is stored under
\* the id and an unavailability error when the agent is not ACTIVE or IDLE; in both
\* cases no task changes and the call made no repository write.  Only with an ACTIVE
\* or IDLE agent does it go on to assign_to, and a CREATED task is then ASSIGNED to
\* the agent and persisted by one task_repository.update before the call returns.
C13_AssignChecksAgentFirst ==
    [][\A c \in Callers :
          /\ BeginsAssign(c) =>
                LET a == AssignAgent(c)
                    t == AssignTask(c)
                    failed(kind) == /\ callers'[c].pc = "idle"
                                    /\ lastReturn'.op = "assign_task_to_agent"
                                    /\ lastReturn'.kind = kind
                                    /\ lastReturn'.writes = 0
                                    /\ tasks' = tasks
                IN  /\ agents[a].status = "none" => failed("agent_not_found")
                    /\ agents[a].status \notin {"none", ACTIVE, IDLE} =>
                          failed("agent_unavailable")
                    /\ (tasks' # tasks \/ callers'[c].pc # "idle") =>
                          agents[a].status \in {ACTIVE, IDLE}
                    /\ (agents[a].status \in {ACTIVE, IDLE} /\ tasks[t].status = CREATED) =>
                          /\ callers'[c].pc = "update"
                          /\ tasks'[t].status = ASSIGNED
                          /\ tasks'[t].assigned_agent = a
          /\ (callers[c].op = "assign_task_to_agent" /\ callers[c].pc = "update") =>
                /\ lastReturn'.kind = "assigned"
                /\ lastReturn'.writes = 1
                /\ tasks' = tasks]_vars

\* C13 witness: the call was refused for a stored agent that is not available (after
\* an earlier call of assign_task_to_agent), the task is still CREATED and unassigned
C13_Witness ==
    /\ lastReturn.op = "assign_task_to_agent"
    /\ lastReturn.kind = "agent_unavailable"
    /\ svc.assign_task_to_agent = 2
    /\ agents[lastReturn.agent_id].status \in {AGENT_CREATED, BUSY}
    /\ tasks[lastReturn.task_id].status = CREATED
    /\ tasks[lastReturn.task_id].assigned_agent = None

BusAssigned == {e \in EventIds : evs[e].type = "TaskAssigned"}

\* schedule_all_pending returns to caller c in this step: after its last task, or at
\* once when called with nothing pending
SweepReturns(c) ==
    /\ callers'[c].pc = "idle"
    /\ \/ callers[c].op = "schedule_all_pending"
       \/ svc'.schedule_all_pending > svc.schedule_all_pending

\* the tasks that were CREATED when the sweep returning in this step was called
CreatedAtCall(c) ==
    IF callers[c].op = "schedule_all_pending" THEN callers[c].created0
    ELSE {t \in TaskIds : tasks[t].status = CREATED}

\* C11: a task found CREATED by schedule_all_pending while an agent that is ACTIVE or
\* IDLE with all required capabilities exists is ASSIGNED to such an agent when the
\* sweep returns, with one TaskAssigned event published for it; no task ever gets a
\* second TaskAssigned event, however often the sweep is invoked; the bus receives
\* one event per publication and hands it to the deferred subscriber at most once,
\* and exactly once when the subscriber was registered at the publish; under fair
\* scheduling the assignment and the delivery do happen.
C11_SweepReconciles ==
    /\ [](\A t \in TaskIds :
            /\ Cardinality(AssignedEvents(t)) <= 1
            /\ \A e \in AssignedEvents(t) : published[e] = 1)
    /\ [](/\ Cardinality(BusAssigned)
               = Cardinality(UNION {AssignedEvents(t) : t \in TaskIds})
          /\ \A e \in BusAssigned :
                /\ dcount[e][Subscriber] <= 1
                /\ evs[e].state = "done" => dcount[e][Subscriber] = 1)
    /\ [][\A c \in Callers : SweepReturns(c) =>
            \A t \in CreatedAtCall(c) :
               (\E a \in AgentIds : Eligible(a, tasks[t].required_capabilities)) =>
                  /\ tasks'[t].status = ASSIGNED
                  /\ tasks'[t].assigned_agent \in AgentIds
                  /\ Eligible(tasks'[t].assigned_agent, tasks[t].required_capabilities)
                  /\ \E e \in DOMAIN published' :
                        /\ e = [type |-> "TaskAssigned", task_id |-> t,
                                agent_id |-> tasks'[t].assigned_agent]
                        /\ published'[e] = 1]_vars
    /\ \A t \in TaskIds :
          (\E c \in Callers :
              /\ callers[c].op = "schedule_all_pending"
              /\ t \in callers[c].created0
              /\ \E a \in AgentIds : Eligible(a, tasks[t].required_capabilities))
          ~> (tasks[t].status = ASSIGNED)
    /\ \A e \in EventIds :
          (evs[e].type = "TaskAssigned" /\ evs[e].state = "queued")
          ~> (evs[e].state = "done" /\ dcount[e][Subscriber] = 1)

\* C11 witness: a sweep assigned a task left CREATED, a later sweep found it ASSIGNED
\* and returned, and the one TaskAssigned event was handed to the subscriber
C11_Witness ==
    /\ svc.schedule_all_pending >= 2
    /\ svc.sweep_events = 1
    /\ lastReturn.op = "schedule_all_pending"
    /\ lastReturn.kind = "not_created"
    /\ lastReturn.events = 0
    /\ \E t \in TaskIds :
          /\ tasks[t].status = ASSIGNED
          /\ Cardinality(AssignedEvents(t)) = 1
    /\ \E e \in BusAssigned : evs[e].state = "done" /\ dcount[e][Subscriber] = 1

\* C21 as stated: schedule_all_pending returns the number of tasks whose status
\* changed from CREATED to ASSIGNED during the call; tasks that were ASSIGNED before
\* the call and tasks that stayed CREATED are not counted.
C21_CountsNewAssignments ==
    [][\A c \in Callers : SweepReturns(c) =>
          lastReturn'.scheduled_count
              = Cardinality({t \in CreatedAtCall(c) : tasks'[t].status = ASSIGNED})]_vars

(***************************************************************************)
(* Properties of concurrent schedule_task calls (SpecRace)                 *)
(***************************************************************************)

\* how many TaskAssigned events were passed to publish for task t
NumAssignedEvents(t) == NumPublishedFor(AssignedEvents(t))

\* C23: with two concurrent schedule_task calls for the same CREATED task, at most
\* one TaskAssigned event is published for the task, assigned_agent is set once (on
\* the CREATED task, from null) and never overwritten, and the agent_id of the
\* published event equals the stored assigned_agent.
C23_OneAssignmentPerTask ==
    /\ [](\A t \in TaskIds :
            /\ NumAssignedEvents(t) <= 1
            /\ \A e \in AssignedEvents(t) : e.agent_id = tasks[t].assigned_agent)
    /\ [][\A t \in TaskIds :
            /\ tasks[t].assigned_agent # None =>
                   tasks'[t].assigned_agent = tasks[t].assigned_agent
            /\ (tasks[t].status # "none" /\ tasks'[t] # tasks[t]) =>
                   /\ tasks[t].status = CREATED
                   /\ tasks'[t].status = ASSIGNED
                   /\ tasks'[t].assigned_agent \in AgentIds]_vars

\* C23 witness: two schedule_task calls both found the task CREATED and found an
\* agent; one has assigned the task, the other is about to call assign_task_to_agent
C23_Witness ==
    \E t \in TaskIds :
        /\ \A c \in Racers : callers[c].task_id = t /\ callers[c].agent_id # None
        /\ callers["caller1"].pc = "assign"
        /\ callers["caller2"].pc \in {"update", "publish"}
        /\ tasks[t].status = ASSIGNED
        /\ is_available(agents[callers["caller1"].agent_id])

(***************************************************************************)
(* Properties of the scheduling operations' effect on agents (SpecEffect)  *)
(***************************************************************************)

\* a step of schedule_task, schedule_all_pending or assign_task_to_agent: caller c
\* calls one of them or is resumed in one (in create_task: from the schedule_task
\* call on)
SchedulingStep(c) ==
    /\ callers'[c] # callers[c]
    /\ callers'[c].pc \notin {"created", "schedule"}

\* how many AgentStatusChanged events were passed to publish
NumStatusChanged ==
    NumPublishedFor({e \in DOMAIN published : e.type = "AgentStatusChanged"})

ProcessEnds(p) ==
    /\ procs'[p].pc = "idle"
    /\ procs[p].pc # "idle" \/ msgCalls' > msgCalls

\* how many events of the type were published for message m
NumPublished(b, type, m) ==
    LET e == [type |-> type, message_id |-> m] IN IF e \in DOMAIN b THEN b[e] ELSE 0

\* C15 as stated: process_message with role "user", no LLM service configured and no
\* conversation_id (or one that is not found) returns normally, having created a new
\* conversation that holds exactly the one user Message, and having published one
\* MessageReceived and no MessageProcessed event for it.
C15_NewConversationOneMessage ==
    [][\A p \in Processors :
          (/\ ProcessEnds(p)
           /\ msgReturn'.role = "user"
           /\ ~msgReturn'.llm
           /\ msgReturn'.arg = None \/ msgReturn'.conversation_id # msgReturn'.arg)
          => LET k == msgReturn'.conversation_id
                 m == msgReturn'.message
             IN  /\ msgReturn'.kind = "returned"
                 /\ k \in ConvIds
                 /\ conversations'[k].stored
                 /\ conversations'[k].messages = <<m>>
                 /\ messages'[m].role = "user"
                 /\ NumPublished(msg_published', "MessageReceived", m) = 1
                 /\ NumPublished(msg_published', "MessageProcessed", m) = 0]_vars

\* C16: when llm_service.generate raises for a user message, process_message ends by
\* that exception, and what was recorded before stays: the user's Message is stored
\* and is in its conversation once, its MessageReceived event was published once;
\* the failing step stores nothing, and no assistant Message and no MessageProcessed
\* event exist for the message.  No step ever removes or changes a stored message or
\* shortens a conversation.
C16_GenerationFailureKeepsMessage ==
    [][/\ \A p \in Processors :
            (procs[p].pc = "generate" /\ ProcessEnds(p)) =>
               LET m == procs[p].message
                   k == procs[p].conversation_id
               IN  /\ msgReturn'.kind = "generation_failed"
                   /\ msgReturn'.message = m
                   /\ messages'[m] = [role |-> "user", conversation_id |-> k, timestamp |-> m]
                   /\ Count(conversations'[k].messages, m) = 1
                   /\ NumPublished(msg_published', "MessageReceived", m) = 1
                   /\ NumPublished(msg_published', "MessageProcessed", m) = 0
                   /\ procs[p].assistant_message = 0
                   /\ constructed' = constructed
                   /\ messages' = messages
                   /\ conversations' = conversations
       /\ \A m \in MsgIds : messages[m] # NoMessage => messages'[m] = messages[m]
       /\ \A k \in ConvIds :
             /\ Len(conversations'[k].messages) >= Len(conversations[k].messages)
             /\ SubSeq(conversations'[k].messages, 1, Len(conversations[k].messages))
                   = conversations[k].messages]_vars

\* C16 witness: process_message ended by the generator's exception; the conversation
\* holds the user's message and nothing else, and MessageReceived was published
C16_Witness ==
    /\ msgReturn.kind = "generation_failed"
    /\ msgReturn.role = "user"
    /\ msgReturn.conversation_id \in ConvIds
    /\ conversations[msgReturn.conversation_id].messages = <<msgReturn.message>>
    /\ messages[msgReturn.message].role = "user"
    /\ NumPublished(msg_published, "MessageReceived", msgReturn.message) = 1
    /\ NumPublished(msg_published, "MessageProcessed", msgReturn.message) = 0

\* the messages of the sequence are in the order in which they were constructed
InCreationOrder(ms) ==
    \A i, j \in 1..Len(ms) : i < j => messages[ms[i]].timestamp < messages[ms[j]].timestamp

\* C17 as stated: in every conversation, for any interleaving of concurrent
\* process_message calls, the conversation's message sequence and the list returned
\* by get_conversation_messages are in the order in which the Messages were created.
C17_CreationOrder ==
    \A k \in ConvIds :
        /\ InCreationOrder(get_conversation_messages(k))
        /\ InCreationOrder(SelectSeq(conversations[k].messages,
                                     LAMBDA m : messages[m] # NoMessage))
        /\ \A i \in 1..Len(conversations[k].messages) :
              messages[conversations[k].messages[i]] # NoMessage

(***************************************************************************)
(* Properties of the services given a bus whose publish raises (SpecPub)   *)
(***************************************************************************)

\* an event is passed to event_bus.publish in this step
PublishStep == published' # published \/ msg_published' # msg_published

\* C29: a failing publication never fails or rolls back a service operation, i.e.
\* when event_bus.publish raises, no call of create_agent, update_agent_status,
\* create_task, schedule_task or process_message ends by that exception: the call
\* goes on as it does after a successful publish and returns normally, and what it
\* stored in the repositories stays stored.
C29_PublishFailureSwallowed ==
    /\ [](event_bus = BusRaises =>
            /\ svc.escaped = 0
            /\ lastReturn.kind \notin {"publish_failed", "publish_caught"}
            /\ msgReturn.kind # "publish_failed")
    /\ [][(event_bus = BusRaises /\ PublishStep) =>
            /\ \A a \in AgentIds :
                  /\ agents[a].status # "none" =>
                        /\ agents'[a].status # "none"
                        /\ agents'[a].updated_at >= agents[a].updated_at
                  /\ (agents[a].status = "none" /\ agents'[a].status # "none") =>
                        /\ agents'[a].status = AGENT_CREATED
                        /\ agent_order' = Append(agent_order, a)
            /\ tasks' = tasks /\ task_order' = task_order
            /\ messages' = messages /\ message_order' = message_order
            /\ conversations' = conversations
            /\ \A c \in Callers :
                  callers'[c] # callers[c] =>
                     \/ callers[c].pc = "created" /\ callers'[c].pc = "schedule"
                     \/ /\ callers[c].pc = "publish" /\ callers'[c].pc = "idle"
                        /\ lastReturn'.kind = "assigned"
                        /\ tasks[lastReturn'.ret].status = ASSIGNED
            /\ \A p \in Processors :
                  procs'[p] # procs[p] =>
                     \/ procs[p].pc = "publish_received" /\ procs'[p].pc = "history"
                     \/ /\ procs'[p].pc = "idle"
                        /\ msgReturn'.kind = "returned"
                        /\ messages[msgReturn'.message].role # "none"]_vars

\* C29 witness: with a bus whose publish raises, an agent was created and activated,
\* create_task stored a task and returned it assigned, and process_message stored
\* the user's message and the assistant's and returned; every event was passed to
\* publish
C29_Witness ==
    /\ event_bus = BusRaises
    /\ \E a \in AgentIds :
          /\ agents[a].status = ACTIVE
          /\ [type |-> "AgentCreated", task_id |-> None, agent_id |-> a] \in DOMAIN published
          /\ [type |-> "AgentStatusChanged", task_id |-> None, agent_id |-> a]
                \in DOMAIN published
    /\ lastReturn.op = "create_task"
    /\ lastReturn.kind = "assigned"
    /\ tasks[lastReturn.ret].status = ASSIGNED
    /\ [type |-> "TaskCreated", task_id |-> lastReturn.ret, agent_id |-> None]
          \in DOMAIN published
    /\ AssignedEvents(lastReturn.ret) # {}
    /\ msgReturn.kind = "returned"
    /\ msgReturn.llm
    /\ messages[msgReturn.message].role = "user"
    /\ [type |-> "MessageReceived", message_id |-> msgReturn.message] \in DOMAIN msg_published
    /\ [type |-> "MessageProcessed", message_id |-> msgReturn.message]
          \in DOMAIN msg_published

====
